---- MODULE Spec2Model ----
(***************************************************************************)
(* Schema lifecycle engine of the GraphQL schema registry:                 *)
(* SchemaPublisher (check / publish / delete / sync / updateVersionStatus),*)
(* the project-type models (SingleModel, CompositeModel), SchemaValidator, *)
(* SchemaManager and the version store, CDN and idempotency runner they    *)
(* talk to.                                                                *)
(*                                                                         *)
(* SDL strings are abstracted to a small alphabet of documents.  A         *)
(* document provides schema elements and may require elements owned by     *)
(* another service; the external composition service reports one error per *)
(* unmet requirement.  "P_ws" is the document "P" with different           *)
(* whitespace: a different string with the same parsed document.           *)
(***************************************************************************)
EXTENDS Integers, Sequences, FiniteSets, TLC

Null == "null"

\* `temp`, the placeholder of a schema that is not stored yet: as an id it
\* is 0 (stored ids start at 1), as a string field it is "temp"
temp == 0

\*--------------------------------------------------------------------------
\* Bounds
\*--------------------------------------------------------------------------
MaxRequests == 3

\*--------------------------------------------------------------------------
\* Domains
\*--------------------------------------------------------------------------
Procs == {"p1", "p2"}
Targets == {"t1", "t2"}
Checksums == {"k1", "k2"}
ProjectTypes == {"FEDERATION", "STITCHING", "SINGLE", "CUSTOM"}
BaseSchemas == {Null, "B"}

\*--------------------------------------------------------------------------
\* GraphQL documents (graphql-js parse / print, shared/schema hashSchema)
\*--------------------------------------------------------------------------
\* parse(sdl): the parsed document; whitespace does not survive parsing
parse(sdl) == IF sdl = "P_ws" THEN "P" ELSE sdl

\* schema elements a document defines
Provides(doc) ==
  CASE doc = "P" -> {"x"}
    [] doc = "Q" -> {"y"}
    [] doc = "Qx" -> {"y"}
    [] doc = "PQ" -> {"x", "y"}
    [] doc = "B" -> {"x"}
    [] OTHER -> {}

\* schema elements a document extends or references without defining them
Requires(doc) == IF doc = "Qx" THEN {"x"} ELSE {}

\* createSchemaObject: raw and document are kept as sets of fragments so
\* that prepending the base schema is a union
createSchemaObject(schema) ==
  [ document |-> {parse(schema.sdl)},
    raw      |-> {schema.sdl},
    source   |-> IF schema.service_name # Null THEN schema.service_name ELSE "*",
    url      |-> schema.service_url ]

\* hashSchema: md5 of the printed, canonically sorted document
hashSchema(obj) == obj.document

\* SchemaHelper.createChecksum
createChecksum(schema) == createSchemaObject(schema).document

\*--------------------------------------------------------------------------
\* schema-helper
\*--------------------------------------------------------------------------
isAddedOrModified(schema) == schema.action \in {"ADD", "MODIFY"}

isSchemaWithSDL(schema) == schema.sdl # Null

serviceExists(schemas, serviceName) ==
  \E i \in DOMAIN schemas : schemas[i].service_name = serviceName

swapServices(schemas, newSchema) ==
  LET hit == {i \in DOMAIN schemas : schemas[i].service_name = newSchema.service_name}
      output == [i \in DOMAIN schemas |-> IF i \in hit THEN newSchema ELSE schemas[i]]
  IN  [ schemas  |-> IF hit = {} THEN Append(output, newSchema) ELSE output,
        found    |-> hit # {},
        \* `swapped` is overwritten on every match: the last match remains
        existing |-> IF hit = {} THEN newSchema
                     ELSE schemas[CHOOSE i \in hit : \A j \in hit : j <= i] ]

Filter(seq, Test(_)) == SelectSeq(seq, Test)

Map(seq, F(_)) == [i \in DOMAIN seq |-> F(seq[i])]

\* localeCompare order of the service names in use
NameRank(name) ==
  CASE name = "a" -> 1
    [] name = "A" -> 2
    [] name = "b" -> 3
    [] OTHER -> 0

\* SchemaHelper.sortSchemas: ascending by service_name
RECURSIVE sortSchemas(_)
sortSchemas(schemas) ==
  IF Len(schemas) <= 1 THEN schemas
  ELSE LET m == CHOOSE i \in DOMAIN schemas :
                  \A j \in DOMAIN schemas :
                     \/ NameRank(schemas[i].service_name) < NameRank(schemas[j].service_name)
                     \/ /\ NameRank(schemas[i].service_name) = NameRank(schemas[j].service_name)
                        /\ i <= j
           rest == [k \in 1..(Len(schemas) - 1) |-> IF k < m THEN schemas[k] ELSE schemas[k + 1]]
       IN  <<schemas[m]>> \o sortSchemas(rest)

\*--------------------------------------------------------------------------
\* Orchestrator (composition service) and Inspector (schema differ)
\*--------------------------------------------------------------------------
Fragments(objs) == UNION {objs[i].document : i \in DOMAIN objs}

Unmet(objs) ==
  (UNION {Requires(d) : d \in Fragments(objs)}) \ (UNION {Provides(d) : d \in Fragments(objs)})

\* orchestrator.validate: the composition errors of a service set
orchestratorValidate(objs) ==
  {[message |-> "Unknown type", path |-> e] : e \in Unmet(objs)}

\* orchestrator.build throws SchemaBuildError: the SINGLE orchestrator returns
\* its input, the others fail on a set that does not compose when the
\* composition service is strict
buildFails(projectType, strict, objs) ==
  projectType # "SINGLE" /\ strict /\ Unmet(objs) # {}

\* orchestrator.build followed by buildSchema: the elements of the result
orchestratorBuild(objs) == UNION {Provides(d) : d \in Fragments(objs)}

\* orchestrator.supergraph: FEDERATION only, null when the set does not compose
orchestratorSupergraph(projectType, objs) ==
  IF projectType = "FEDERATION" /\ Unmet(objs) = {}
  THEN {<<objs[i].source, objs[i].url, objs[i].raw>> : i \in DOMAIN objs}
  ELSE {}

\* Inspector.diff: removed elements are Breaking, added elements are Safe
inspectorDiff(existing, incoming) ==
  {[criticality |-> "Breaking", path |-> e] : e \in existing \ incoming}
  \cup {[criticality |-> "Safe", path |-> e] : e \in incoming \ existing}

\*--------------------------------------------------------------------------
\* SchemaValidator.validate
\*--------------------------------------------------------------------------
\* the `compare` argument: false, or {incoming, existing | null}
NoObject == [document |-> {}, raw |-> {}, source |-> "*", url |-> Null]

NoCompare == [enabled |-> FALSE, hasExisting |-> FALSE,
              incoming |-> NoObject, existing |-> NoObject]

Compare(incoming, hasExisting, existing) ==
  [enabled |-> TRUE, hasExisting |-> hasExisting,
   incoming |-> incoming, existing |-> IF hasExisting THEN existing ELSE NoObject]

\* afterWithBase: the base schema is prepended to the first schema
prependBase(after, baseSchema) ==
  IF baseSchema # Null
  THEN [i \in DOMAIN after |->
          IF i = 1
          THEN [after[i] EXCEPT !.raw = {baseSchema} \cup @,
                                !.document = {parse(baseSchema)} \cup @]
          ELSE after[i]]
  ELSE after

\* a validator that reports breaking changes whether or not they are accepted
validationResultUnaccepted(areIdentical, isInitial, acceptBreakingChanges, compositionErrors, failed, diff) ==
  LET changes == IF failed THEN {} ELSE diff
      breaking == {c \in changes : c.criticality = "Breaking"}
  IN  IF areIdentical
      THEN [isComposable |-> TRUE, hasBreakingChanges |-> FALSE,
            errors |-> {}, changes |-> {}]
      ELSE IF isInitial
      THEN [isComposable |-> compositionErrors = {}, hasBreakingChanges |-> FALSE,
            errors |-> compositionErrors, changes |-> {}]
      ELSE [isComposable |-> compositionErrors = {},
            hasBreakingChanges |-> breaking # {},
            errors |-> compositionErrors
                       \cup (IF failed
                             THEN {[message |-> "Failed to compare schemas", path |-> Null]}
                             ELSE IF ~acceptBreakingChanges
                             THEN {[message |-> "Breaking Change", path |-> c.path] : c \in breaking}
                             ELSE {}),
            changes |-> changes]

\* a validator for which a failed comparison makes the schema not composable
validationResultFailedInvalid(areIdentical, isInitial, acceptBreakingChanges, compositionErrors, failed, diff) ==
  LET changes == IF failed THEN {} ELSE diff
      breaking == {c \in changes : c.criticality = "Breaking"}
      hasBreakingChanges == breaking # {} /\ ~acceptBreakingChanges
  IN  IF areIdentical
      THEN [isComposable |-> TRUE, hasBreakingChanges |-> FALSE,
            errors |-> {}, changes |-> {}]
      ELSE IF isInitial
      THEN [isComposable |-> compositionErrors = {}, hasBreakingChanges |-> FALSE,
            errors |-> compositionErrors, changes |-> {}]
      ELSE [isComposable |-> compositionErrors = {} /\ ~failed,
            hasBreakingChanges |-> hasBreakingChanges,
            errors |-> compositionErrors
                       \cup (IF failed
                             THEN {[message |-> "Failed to compare schemas", path |-> Null]}
                             ELSE IF hasBreakingChanges
                             THEN {[message |-> "Breaking Change", path |-> c.path] : c \in breaking}
                             ELSE {}),
            changes |-> changes]

\* the ValidationResult validate returns; failed: orchestrator.build threw on
\* the schemas before or after, diff: what the inspector finds otherwise
validationResultOf(areIdentical, isInitial, acceptBreakingChanges, compositionErrors, failed, diff) ==
  LET changes == IF failed THEN {} ELSE diff
      breaking == {c \in changes : c.criticality = "Breaking"}
      hasBreakingChanges == breaking # {} /\ ~acceptBreakingChanges
      errors ==
        compositionErrors
        \cup (IF failed
              THEN {[message |-> "Failed to compare schemas", path |-> Null]}
              ELSE IF hasBreakingChanges
              THEN {[message |-> "Breaking Change", path |-> c.path] : c \in breaking}
              ELSE {})
  IN  IF areIdentical
      THEN [isComposable |-> TRUE, hasBreakingChanges |-> FALSE,
            errors |-> {}, changes |-> {}]
      ELSE IF isInitial
      THEN [isComposable |-> compositionErrors = {}, hasBreakingChanges |-> FALSE,
            errors |-> compositionErrors, changes |-> {}]
      ELSE [isComposable |-> compositionErrors = {},
            hasBreakingChanges |-> hasBreakingChanges,
            errors |-> errors, changes |-> changes]

\* compare.existing && hashSchema(compare.existing) === hashSchema(compare.incoming)
areIdentical(compare) ==
  /\ compare.enabled
  /\ compare.hasExisting
  /\ hashSchema(compare.existing) = hashSchema(compare.incoming)

\* SchemaValidator.validate; diffFails: inspector.diff throws
validateInspected(projectType, strict, isInitial, compare, schemas, acceptBreakingChanges, diffFails) ==
  validationResultOf(
    areIdentical(compare),
    isInitial, acceptBreakingChanges,
    orchestratorValidate(prependBase(schemas.after, schemas.baseSchema)),
    \/ buildFails(projectType, strict, schemas.before)
    \/ buildFails(projectType, strict, schemas.after)
    \/ diffFails,
    inspectorDiff(orchestratorBuild(schemas.before), orchestratorBuild(schemas.after)))

\* SchemaValidator.validate with an inspector that answers
validate(projectType, strict, isInitial, compare, schemas, acceptBreakingChanges) ==
  validateInspected(projectType, strict, isInitial, compare, schemas,
                    acceptBreakingChanges, FALSE)

\*--------------------------------------------------------------------------
\* Schemas and model results
\*--------------------------------------------------------------------------
Schema(id, action, name, url, sdl, metadata) ==
  [id |-> id, action |-> action, service_name |-> name, service_url |-> url,
   sdl |-> sdl, metadata |-> metadata]

NoSchema == Schema(temp, "N/A", Null, Null, Null, Null)

NoCdn == [present |-> FALSE, schemas |-> <<>>, supergraph |-> {}]

Conclusion == [Publish |-> "Publish", Reject |-> "Reject", Neutral |-> "Neutral"]

\* the part of a ValidationResult the conclusions are decided on; `ran` tells
\* whether the model got as far as validating
NoValidation == [ran |-> FALSE, isComposable |-> FALSE, hasBreakingChanges |-> FALSE]

Validated(validationResult) ==
  [ran |-> TRUE, isComposable |-> validationResult.isComposable,
   hasBreakingChanges |-> validationResult.hasBreakingChanges]

\* a model threw (HiveError / Error)
Thrown(message) ==
  [kind |-> "throw", error |-> message, conclusion |-> Null, typename |-> Null,
   isComposable |-> FALSE, isInitial |-> FALSE, changes |-> {}, errors |-> {},
   updates |-> {}, schemaAfter |-> NoSchema, schemasAfter |-> <<>>, cdn |-> NoCdn,
   baseSchema |-> Null, validation |-> NoValidation]

\* { error: 'MISSING_SERVICE_NAME' | 'MISSING_SERVICE_URL', message }
InputError(error) == [Thrown(error) EXCEPT !.kind = "error"]

\* an unmodified schema is published again
NeutralAsPublish(isInitial, validationResult) ==
  [Thrown(Null) EXCEPT !.kind = "result", !.conclusion = Conclusion.Publish,
                       !.typename = "SchemaPublishSuccess",
                       !.isInitial = isInitial, !.isComposable = TRUE,
                       !.validation = Validated(validationResult)]

\* { conclusion: Conclusion.Neutral, ... }
NeutralResult(isInitial, validationResult) ==
  [Thrown(Null) EXCEPT !.kind = "result", !.conclusion = Conclusion.Neutral,
                       !.isInitial = isInitial, !.isComposable = TRUE,
                       !.validation = Validated(validationResult)]

trim(str) == IF str = " " THEN "" ELSE str

\* a test that takes a whitespace-only value for a value
isEmpty(value) == value = Null \/ value = ""

\* !value || typeof value !== 'string' || value.trim() === ''
isBlank(value) == value = Null \/ value = "" \/ trim(value) = ""

\*--------------------------------------------------------------------------
\* CompositeModel
\*--------------------------------------------------------------------------
supportsMetadata(project) == project.type # "FEDERATION"

supportsBaseSchema(project) == project.type # "FEDERATION"

supportsSupergraph(project) == project.type = "FEDERATION"

requiresServiceUrl(project) == project.type = "FEDERATION"

\* CompositeModel.check from swapServices on; incoming is the temp schema
compositeCheckSwapped(acceptBreakingChanges, project, strict, schemas, baseSchema, incoming, swap) ==
  LET schemaObjects ==
        [before |-> Map(Filter(schemas, isAddedOrModified), createSchemaObject),
         after  |-> Map(Filter(swap.schemas, isAddedOrModified), createSchemaObject)]
      isInitial == Len(schemas) = 0
  IN  [validationResult |->
         validate(project.type, strict, isInitial,
                  Compare(createSchemaObject(incoming), swap.found,
                          createSchemaObject(swap.existing)),
                  [baseSchema |-> baseSchema, before |-> schemaObjects.before,
                   after |-> schemaObjects.after],
                  acceptBreakingChanges),
       isInitial |-> isInitial,
       hasPrevious |-> swap.found,
       previousService |-> swap.existing,
       schemaObjects |-> schemaObjects,
       schemas |-> [before |-> schemas, after |-> swap.schemas]]

\* the temp schema CompositeModel.check validates
compositeIncoming(input, schemas) ==
  Schema(temp, IF serviceExists(schemas, input.service) THEN "MODIFY" ELSE "ADD",
         input.service, "temp", input.sdl, Null)

\* CompositeModel.check; storedBase is what schemaManager.getBaseSchema returns
compositeCheck(input, acceptBreakingChanges, project, strict, currentSchemas, storedBase) ==
  compositeCheckSwapped(acceptBreakingChanges, project, strict, currentSchemas,
                        IF supportsBaseSchema(project) THEN storedBase ELSE Null,
                        compositeIncoming(input, currentSchemas),
                        swapServices(currentSchemas, compositeIncoming(input, currentSchemas)))

\* CompositeModel.publish from the result of its check on
compositePublishChecked(input, project, hasVersion, checked) ==
  LET serviceName == input.service
      serviceUrl == input.url
      validationResult == checked.validationResult
      isInitial == checked.isInitial
      hasPrevious == checked.hasPrevious
      previousService == checked.previousService
      incoming == Schema(temp, IF hasPrevious THEN "MODIFY" ELSE "ADD",
                         serviceName, serviceUrl, input.sdl,
                         IF supportsMetadata(project) THEN input.metadata ELSE Null)
      schemas == [before |-> checked.schemas.before,
                  after  |-> [i \in DOMAIN checked.schemas.after |->
                                IF checked.schemas.after[i].id = incoming.id
                                THEN incoming ELSE checked.schemas.after[i]]]
      afterObjects == Map(Filter(schemas.after, isAddedOrModified), createSchemaObject)
      changes == validationResult.changes
      errors == validationResult.errors
      isComposable == validationResult.isComposable
      hasBreakingChanges == validationResult.hasBreakingChanges
      hasNewUrl == /\ hasVersion
                   /\ hasPrevious
                   /\ previousService.service_url # incoming.service_url
      hasSchemaChanges == changes # {}
      hasErrors == errors # {}
      isForced == input.force
      hasDifferentChecksum ==
        /\ hasVersion
        /\ hasPrevious
        /\ Map(sortSchemas(schemas.before), createChecksum)
             # Map(sortSchemas(schemas.after), createChecksum)
      isModified == hasNewUrl \/ hasSchemaChanges \/ hasErrors \/ hasDifferentChecksum
      valid == isComposable /\ ~hasBreakingChanges
      legacyConclusion == IF valid \/ isForced THEN Conclusion.Publish ELSE Conclusion.Reject
      conclusion == IF isComposable THEN Conclusion.Publish ELSE Conclusion.Reject
      bundle == [present |-> TRUE,
                 schemas |-> Filter(schemas.after, isAddedOrModified),
                 supergraph |-> IF supportsSupergraph(project)
                                THEN orchestratorSupergraph(project.type, afterObjects)
                                ELSE {}]
      common == [Thrown(Null) EXCEPT
                   !.kind = "result", !.changes = changes, !.errors = errors,
                   !.updates = IF hasNewUrl THEN {"New service url"} ELSE {},
                   !.schemaAfter = incoming,
                   !.schemasAfter = Filter(schemas.after, isAddedOrModified),
                   !.isInitial = isInitial,
                   !.validation = Validated(validationResult)]
  IN  IF isBlank(serviceName) THEN InputError("MISSING_SERVICE_NAME")
      ELSE IF requiresServiceUrl(project) /\ isBlank(serviceUrl)
      THEN InputError("MISSING_SERVICE_URL")
      ELSE IF ~isModified /\ ~isInitial THEN NeutralResult(isInitial, validationResult)
      ELSE IF project.legacy
      THEN [common EXCEPT
              !.conclusion = legacyConclusion,
              !.typename = IF legacyConclusion = Conclusion.Publish
                           THEN "SchemaPublishSuccess" ELSE "SchemaPublishError",
              !.isComposable = valid,
              !.cdn = IF valid THEN bundle ELSE NoCdn]
      ELSE [common EXCEPT
              !.conclusion = conclusion,
              !.typename = IF conclusion = Conclusion.Publish
                           THEN "SchemaPublishSuccess" ELSE "SchemaPublishError",
              !.isComposable = isComposable,
              !.cdn = IF conclusion = Conclusion.Publish THEN bundle ELSE NoCdn]

\* CompositeModel.publish; hasVersion is `version` being non-null
compositePublish(input, project, strict, currentSchemas, hasVersion, storedBase) ==
  compositePublishChecked(
    input, project, hasVersion,
    compositeCheck([sdl |-> input.sdl, service |-> input.service],
                   input.accept \/ ~project.legacy,
                   project, strict, currentSchemas, storedBase))

\* allActiveServices.find(service => service.service_name === serviceName)
findService(allActiveServices, serviceName) ==
  LET found == {i \in DOMAIN allActiveServices :
                  allActiveServices[i].service_name = serviceName}
  IN  IF found = {} THEN NoSchema
      ELSE allActiveServices[CHOOSE i \in found : \A j \in found : i <= j]

\* CompositeModel.delete: the validation of the services that remain
deleteValidation(input, project, strict, allActiveServices, serviceToDelete, baseSchema) ==
  LET keep(service) == service.id # serviceToDelete.id
  IN  validate(project.type, strict, FALSE, NoCompare,
               [baseSchema |-> baseSchema,
                before |-> Map(Filter(allActiveServices, isAddedOrModified),
                               createSchemaObject),
                after  |-> Map(Filter(Filter(allActiveServices, keep), isAddedOrModified),
                               createSchemaObject)],
               input.force)

\* a delete that is decided on the validation alone
compositeDeleteUnforced(serviceName, isForced, found, serviceToDelete, baseSchema, validation) ==
  [conclusion |-> IF found # {} /\ validation.isComposable /\ ~validation.hasBreakingChanges
                  THEN Conclusion.Publish ELSE Conclusion.Reject,
   errors |-> validation.errors,
   isComposable |-> validation.isComposable,
   hasBreakingChanges |-> validation.hasBreakingChanges,
   service |-> serviceToDelete, baseSchema |-> baseSchema, validated |-> found # {}]

\* CompositeModel.delete from its validation on
compositeDeleteValidated(serviceName, isForced, found, serviceToDelete, baseSchema, validation) ==
      IF found = {}
      THEN [conclusion |-> Conclusion.Reject,
            errors |-> {[message |-> "Service not found", path |-> serviceName]},
            isComposable |-> FALSE, hasBreakingChanges |-> FALSE,
            service |-> NoSchema, baseSchema |-> Null, validated |-> FALSE]
      ELSE [conclusion |-> IF isForced \/ (validation.isComposable /\ ~validation.hasBreakingChanges)
                           THEN Conclusion.Publish ELSE Conclusion.Reject,
            errors |-> validation.errors,
            isComposable |-> validation.isComposable,
            hasBreakingChanges |-> validation.hasBreakingChanges,
            service |-> serviceToDelete, baseSchema |-> baseSchema, validated |-> TRUE]

\* CompositeModel.delete on the active services of the latest version
compositeDeleteActive(input, project, strict, allActiveServices, serviceToDelete, baseSchema) ==
  compositeDeleteValidated(
    input.service, input.force,
    {i \in DOMAIN allActiveServices : allActiveServices[i].service_name = input.service},
    serviceToDelete, baseSchema,
    deleteValidation(input, project, strict, allActiveServices, serviceToDelete,
                     baseSchema))

\* CompositeModel.delete
compositeDelete(input, project, strict, currentSchemas, storedBase) ==
  compositeDeleteActive(
    input, project, strict, Filter(currentSchemas, isAddedOrModified),
    findService(Filter(currentSchemas, isAddedOrModified), input.service),
    IF supportsBaseSchema(project) THEN storedBase ELSE Null)

\*--------------------------------------------------------------------------
\* SingleModel
\*--------------------------------------------------------------------------
\* SingleModel.check; the caller handles currentSchemas.length > 1
singleCheck(input, acceptBreakingChanges, project, strict, currentSchemas, storedBase) ==
  LET hasExisting == Len(currentSchemas) = 1
      existing == IF hasExisting THEN currentSchemas[1] ELSE NoSchema
      incoming == Schema(temp, "N/A", Null, Null, input.sdl, Null)
      incomingObject == createSchemaObject(incoming)
      existingObject == IF hasExisting THEN createSchemaObject(existing) ELSE NoObject
      isInitial == ~hasExisting
  IN  [validationResult |->
         validate(project.type, strict, isInitial,
                  Compare(incomingObject, hasExisting, existingObject),
                  [baseSchema |-> storedBase,
                   before |-> IF hasExisting THEN <<existingObject>> ELSE <<>>,
                   after |-> <<incomingObject>>],
                  acceptBreakingChanges),
       isInitial |-> isInitial,
       hasBefore |-> hasExisting,
       before |-> existing]

\* SingleModel.publish from the result of its check on
singlePublishChecked(input, project, currentSchemas, hasVersion, checked) ==
  LET validationResult == checked.validationResult
      isInitial == checked.isInitial
      incoming == Schema(temp, "N/A", Null, Null, input.sdl, input.metadata)
      changes == validationResult.changes
      errors == validationResult.errors
      isComposable == validationResult.isComposable
      hasBreakingChanges == validationResult.hasBreakingChanges
      hasNewUrl == FALSE
      hasSchemaChanges == changes # {}
      hasErrors == errors # {}
      isForced == input.force
      hasDifferentChecksum ==
        /\ hasVersion
        /\ checked.hasBefore
        /\ createChecksum(checked.before) # createChecksum(incoming)
      isModified == hasNewUrl \/ hasSchemaChanges \/ hasErrors \/ hasDifferentChecksum
      valid == isComposable /\ ~hasBreakingChanges
      legacyConclusion == IF valid \/ isForced THEN Conclusion.Publish ELSE Conclusion.Reject
      conclusion == IF isComposable THEN Conclusion.Publish ELSE Conclusion.Reject
      bundle == [present |-> TRUE, schemas |-> <<incoming>>, supergraph |-> {}]
      common == [Thrown(Null) EXCEPT
                   !.kind = "result", !.changes = changes, !.errors = errors,
                   !.schemaAfter = incoming, !.schemasAfter = <<incoming>>,
                   !.isInitial = isInitial,
                   !.validation = Validated(validationResult)]
  IN  IF Len(currentSchemas) > 1
      THEN Thrown("Single-schema project can only have a single schema")
      ELSE IF ~isModified /\ ~isInitial
      THEN [NeutralResult(isInitial, validationResult) EXCEPT !.isComposable = isComposable]
      ELSE IF project.legacy
      THEN [common EXCEPT
              !.conclusion = legacyConclusion,
              !.typename = IF legacyConclusion = Conclusion.Publish
                           THEN "SchemaPublishSuccess" ELSE "SchemaPublishError",
              !.isComposable = valid,
              !.cdn = IF valid THEN bundle ELSE NoCdn]
      ELSE [common EXCEPT
              !.conclusion = conclusion,
              !.typename = IF conclusion = Conclusion.Publish
                           THEN "SchemaPublishSuccess" ELSE "SchemaPublishError",
              !.isComposable = isComposable,
              !.cdn = IF conclusion = Conclusion.Publish THEN bundle ELSE NoCdn]

\* SingleModel.publish
singlePublish(input, project, strict, currentSchemas, hasVersion, storedBase) ==
  singlePublishChecked(
    input, project, currentSchemas, hasVersion,
    singleCheck([sdl |-> input.sdl], input.accept \/ ~project.legacy,
                project, strict, currentSchemas, storedBase))

\* SingleModel.delete: always throws this HiveError
singleDelete == "Deleting schemas is not supported for single-schema projects"

\*--------------------------------------------------------------------------
\* State
\*--------------------------------------------------------------------------
VARIABLES
  project,     \* the project record: [type, legacy (isUsingLegacyRegistryModel)]
  getStarted,  \* the organization record: its completed get-started steps
  strict,      \* whether the composition service's build rejects a set that does not compose
  baseSchema,  \* target -> base schema
  actions,     \* registry_actions rows, in insertion (createdAt) order; id = position
  versions,    \* registry_versions rows with their registry_version_action edges (`live`)
  cdn,         \* target -> the three CDN resources
  runner,      \* idempotency store: identifier -> entry
  req,         \* request handlers: process -> its position and locals
  requests     \* the number of SchemaPublisher requests received so far

vars == <<project, getStarted, strict, baseSchema, actions, versions, cdn, runner, req, requests>>

isCompositeSchemaProject == project.type \in {"FEDERATION", "STITCHING"}

Max(S) == CHOOSE x \in S : \A y \in S : y <= x

Min(S) == CHOOSE x \in S : \A y \in S : x <= y

\* the elements of a set of numbers in ascending order
RECURSIVE Ascending(_)
Ascending(S) == IF S = {} THEN <<>> ELSE <<Min(S)>> \o Ascending(S \ {Min(S)})

\*--------------------------------------------------------------------------
\* Storage (version store)
\*--------------------------------------------------------------------------
VersionsOf(target) == {i \in DOMAIN versions : versions[i].target = target}

\* the live action ids of a version (0: no version)
liveOf(i) == IF i = 0 THEN {} ELSE versions[i].live

\* a store whose latest version is the one committed first
getMaybeEarliestVersion(target) ==
  IF VersionsOf(target) = {} THEN 0 ELSE Min(VersionsOf(target))

\* 0 stands for "no version"
getMaybeLatestVersion(target) ==
  IF VersionsOf(target) = {} THEN 0 ELSE Max(VersionsOf(target))

getMaybeLatestComposableVersion(target) ==
  LET composable == {i \in VersionsOf(target) : versions[i].isComposable}
  IN  IF composable = {} THEN 0 ELSE Max(composable)

asSchema(action) ==
  Schema(action.id, action.action, action.service_name, action.service_url,
         action.sdl, action.metadata)

getSchemasOfVersion(versionId) ==
  LET ids == Ascending(versions[versionId].live)
  IN  [i \in DOMAIN ids |-> asSchema(actions[ids[i]])]

getLatestSchemas(target) ==
  LET latest == getMaybeLatestVersion(target)
  IN  [hasVersion |-> latest # 0,
       schemas |-> IF latest = 0 THEN <<>> ELSE getSchemasOfVersion(latest)]

\* the rows a version write adds: one action, one version, its edges
insertVersion(target, kind, schema, isComposable, live) ==
  LET actionId == Len(actions) + 1
      versionId == Len(versions) + 1
  IN  [actions |-> Append(actions,
                     [id |-> actionId, action |-> kind, target |-> target,
                      service_name |-> schema.serviceName,
                      service_url |-> schema.serviceUrl,
                      sdl |-> schema.sdl, metadata |-> schema.metadata,
                      commit |-> schema.commit]),
       versions |-> Append(versions,
                      [id |-> versionId, target |-> target,
                       isComposable |-> isComposable,
                       base_schema |-> schema.base_schema,
                       actionId |-> actionId,
                       live |-> IF live.add THEN live.kept \cup {actionId} ELSE live.kept])]

\* the live action ids of the target's latest version, without those of a service
priorWithout(target, serviceName) ==
  LET latest == getMaybeLatestVersion(target)
      prior == IF latest = 0 THEN {} ELSE versions[latest].live
  IN  {a \in prior : actions[a].service_name # serviceName}

\* a store that never finds the service in the prior live set
priorHasNone(target, serviceName) == FALSE

priorHas(target, serviceName) ==
  LET latest == getMaybeLatestVersion(target)
      prior == IF latest = 0 THEN {} ELSE versions[latest].live
  IN  \E a \in prior : actions[a].service_name = serviceName

\* a store that classifies the action of every project against the prior live set
storageCreateVersionByService(target, schema, isComposable) ==
  insertVersion(target,
                IF priorHas(target, schema.serviceName) THEN "MODIFY" ELSE "ADD",
                schema, isComposable,
                [add |-> TRUE, kept |-> priorWithout(target, schema.serviceName)])

\* storage.createVersion, one transaction
storageCreateVersion(target, schema, isComposable) ==
  IF isCompositeSchemaProject
  THEN insertVersion(target,
                     IF priorHas(target, schema.serviceName) THEN "MODIFY" ELSE "ADD",
                     schema, isComposable,
                     [add |-> TRUE, kept |-> priorWithout(target, schema.serviceName)])
  ELSE insertVersion(target, "N/A", schema, isComposable, [add |-> TRUE, kept |-> {}])

\* a delete whose action carries a document
storageDeleteSchemaWithSdl(target, serviceName, isComposable, base, author, commit) ==
  insertVersion(target, "DELETE",
                [sdl |-> "P", serviceName |-> serviceName, serviceUrl |-> Null,
                 metadata |-> Null, commit |-> commit, base_schema |-> base],
                isComposable,
                [add |-> FALSE, kept |-> priorWithout(target, serviceName)])

\* storage.deleteSchema, one transaction
storageDeleteSchema(target, serviceName, isComposable, base, author, commit) ==
  insertVersion(target, "DELETE",
                [sdl |-> Null, serviceName |-> serviceName, serviceUrl |-> Null,
                 metadata |-> Null, commit |-> commit, base_schema |-> base],
                isComposable,
                [add |-> FALSE, kept |-> priorWithout(target, serviceName)])

\*--------------------------------------------------------------------------
\* SchemaManager
\*--------------------------------------------------------------------------
toLowerCase(name) == IF name = "A" THEN "a" ELSE name

\* SchemaManager.completeGetStartedCheck: the step is recorded on the organization
completeGetStartedCheck(step) == getStarted \cup {step}

\* authManager.ensureTargetAccess
ensureTargetAccess(scopes, scope) == scope \in scopes

\* a publish that appends its action to the live set
createVersionAppending(input) ==
  insertVersion(input.target, "ADD",
                [sdl |-> input.schema, serviceName |-> input.service,
                 commit |-> input.commit, serviceUrl |-> input.url,
                 metadata |-> input.metadata, base_schema |-> input.base_schema],
                input.isComposable,
                [add |-> TRUE, kept |-> liveOf(getMaybeLatestVersion(input.target))])

\* every written version is recorded as composable
createVersionComposable(input) ==
  storageCreateVersion(input.target,
                       [sdl |-> input.schema, serviceName |-> input.service,
                        commit |-> input.commit, serviceUrl |-> input.url,
                        metadata |-> input.metadata,
                        base_schema |-> input.base_schema],
                       TRUE)

\* every written version is recorded as not composable
createVersionNotComposable(input) ==
  storageCreateVersion(input.target,
                       [sdl |-> input.schema, serviceName |-> input.service,
                        commit |-> input.commit, serviceUrl |-> input.url,
                        metadata |-> input.metadata,
                        base_schema |-> input.base_schema],
                       FALSE)

\* SchemaManager.createVersion (after its access check)
createVersion(input) ==
  LET service == IF project.legacy /\ ~(input.service \in {Null, ""})
                 THEN toLowerCase(input.service) ELSE input.service
  IN  storageCreateVersion(input.target,
                           [sdl |-> input.schema, serviceName |-> service,
                            commit |-> input.commit, serviceUrl |-> input.url,
                            metadata |-> input.metadata,
                            base_schema |-> input.base_schema],
                           input.isComposable)

\* a delete that records the DELETE action without filtering the live set
deleteSchemaKeepingAll(input) ==
  insertVersion(input.target, "DELETE",
                [sdl |-> Null, serviceName |-> input.serviceName, serviceUrl |-> Null,
                 metadata |-> Null, commit |-> "unknown", base_schema |-> input.baseSchema],
                input.isComposable,
                [add |-> FALSE, kept |-> liveOf(getMaybeLatestVersion(input.target))])

\* SchemaManager.deleteSchema (after its access check)
deleteSchema(input) ==
  storageDeleteSchema(input.target, input.serviceName, input.isComposable,
                      input.baseSchema, "unknown", "unknown")

\*--------------------------------------------------------------------------
\* Requests and responses
\*--------------------------------------------------------------------------
NoResp == [typename |-> Null, message |-> Null, initial |-> FALSE, valid |-> FALSE,
           errors |-> {}, changes |-> {}, ok |-> Null]

\* a thrown error as the caller sees it
Failure(typename, message) == [NoResp EXCEPT !.typename = typename, !.message = message]

\* the error of a failed ensureTargetAccess: its message names the scope
AccessError(scope) == Failure("AccessError", scope)

NoInput == [target |-> Null, service |-> Null, url |-> Null, sdl |-> Null,
            force |-> FALSE, accept |-> FALSE, metadata |-> Null, checksum |-> Null,
            version |-> 0, valid |-> FALSE]

\* op: the entrypoint; pc: the next step; result: the model's result;
\* wrote: the version this request wrote (0: none); uploaded: whether it
\* changed a CDN resource; executed: whether it ran the publish logic;
\* overlap: the publishes with the same checksum in flight when it was issued;
\* prior: the callers whose request had completed when it was issued
IdleReq == [op |-> "none", pc |-> "idle", scopes |-> {}, input |-> NoInput,
            result |-> Thrown(Null), resp |-> NoResp, wrote |-> 0,
            uploaded |-> FALSE, executed |-> FALSE, overlap |-> {}, prior |-> {}]

\* a request as it arrives
Arrived(p, op, scopes, input) ==
  [IdleReq EXCEPT !.op = op, !.scopes = scopes, !.input = input,
                  !.prior = {q \in Procs \ {p} : req[q].pc = "done"}]

\* scopes: those of the token the identifier was issued for
NoEntry == [status |-> "none", owner |-> Null, scopes |-> {}, result |-> NoResp]

\*--------------------------------------------------------------------------
\* CDN
\*--------------------------------------------------------------------------
NoResource == [kind |-> "none", items |-> <<>>]

cdnItem(schema) == [sdl |-> schema.sdl, url |-> schema.service_url,
                    name |-> schema.service_name]

\* the three values updateCDN publishes; kind "none": nothing is published
cdnResources(schemas, supergraph) ==
  LET metadata == Map(Filter(schemas, LAMBDA sc : sc.metadata # Null),
                      LAMBDA sc : sc.metadata)
  IN  [schema |->
         IF Len(schemas) > 1 \/ isCompositeSchemaProject
         THEN [kind |-> "array", items |-> Map(schemas, cdnItem)]
         ELSE [kind |-> "object",
               items |-> Map(schemas, LAMBDA sc : [sdl |-> sc.sdl, url |-> Null, name |-> Null])],
       metadata |->
         IF Len(metadata) = 0 THEN NoResource
         ELSE IF Len(metadata) = 1 THEN [kind |-> "object", items |-> metadata]
         ELSE [kind |-> "array", items |-> metadata],
       supergraph |->
         IF supergraph = {} THEN NoResource
         ELSE [kind |-> "text", items |-> <<supergraph>>]]

ResourceTypes == {"schema", "metadata", "supergraph"}

\* an update that leaves the schema resource as it was
updateCDNWithoutSchema(target, bundle, ok) ==
  LET values == cdnResources(bundle.schemas, bundle.supergraph)
      attempted == {r \in ResourceTypes : values[r].kind # "none"}
  IN  [cdn |-> [cdn EXCEPT ![target] =
                  [r \in ResourceTypes |->
                     IF r \in (attempted \cap ok) \ {"schema"} THEN values[r] ELSE @[r]]],
       attempted |-> attempted,
       failed |-> attempted \ ok # {}]

\* SchemaPublisher.updateCDN with the uploads in `ok` succeeding
updateCDN(target, bundle, ok) ==
  LET values == cdnResources(bundle.schemas, bundle.supergraph)
      attempted == {r \in ResourceTypes : values[r].kind # "none"}
  IN  [cdn |-> [cdn EXCEPT ![target] =
                  [r \in ResourceTypes |-> IF r \in attempted \cap ok THEN values[r] ELSE @[r]]],
       attempted |-> attempted,
       failed |-> attempted \ ok # {}]

\*--------------------------------------------------------------------------
\* Initial state
\*--------------------------------------------------------------------------
InitProjects(types, legacies) ==
  /\ project \in [type : types, legacy : legacies]
  /\ getStarted = {}
  /\ strict \in BOOLEAN
  /\ baseSchema = [t \in Targets |-> Null]
  /\ actions = <<>>
  /\ versions = <<>>
  /\ cdn = [t \in Targets |-> [r \in ResourceTypes |-> NoResource]]
  /\ runner = [k \in Checksums |-> NoEntry]
  /\ req = [p \in Procs |-> IdleReq]
  /\ requests = 0

Init == InitProjects({"FEDERATION", "SINGLE"}, BOOLEAN)

\*--------------------------------------------------------------------------
\* SchemaPublisher.publish
\*--------------------------------------------------------------------------
InFlight(q) == req[q].pc \notin {"idle", "done"}

Overlapping(p, checksum) ==
  {q \in Procs \ {p} : /\ req[q].op = "publish"
                       /\ InFlight(q)
                       /\ req[q].input.checksum = checksum}

\* the request leaves its handler with `resp`
Done(r, resp) == [r EXCEPT !.pc = "done", !.resp = resp]

\* a runner that stores results only: an error frees the identifier
SettledUnlessError(p, resp) ==
  [k \in Checksums |->
     IF runner[k].status = "running" /\ runner[k].owner = p
     THEN IF resp.typename \in {"Error", "AccessError"} THEN NoEntry
          ELSE [runner[k] EXCEPT !.status = "done", !.result = resp]
     ELSE runner[k]]

\* the runner stores the outcome of the execution it started for p
Settled(p, resp) ==
  [k \in Checksums |->
     IF runner[k].status = "running" /\ runner[k].owner = p
     THEN [runner[k] EXCEPT !.status = "done", !.result = resp]
     ELSE runner[k]]

\* publish without the runner: every caller executes internalPublish
PublishUnguarded(p, input, scopes) ==
  /\ req[p].pc = "idle"
  /\ req' = [req EXCEPT ![p] = [Arrived(p, "publish", scopes, input) EXCEPT
                                  !.overlap = {q \in Procs \ {p} :
                                                 /\ req[q].op = "publish"
                                                 /\ req[q].pc \notin {"idle", "done"}
                                                 /\ req[q].input.checksum = input.checksum},
                                  !.pc = "internalPublish"]]
  /\ UNCHANGED <<project, getStarted, strict, baseSchema, actions, versions, cdn, runner>>
  /\ requests < MaxRequests
  /\ requests' = requests + 1

\* publish: idempotentRunner.run({ identifier: `schema:publish:${checksum}`,
\* executor: internalPublish, ttl: 60 }): the first caller of an identifier
\* executes, a caller that finds an entry awaits its outcome
Publish(p, input, scopes) ==
  LET k == input.checksum
      issued == [Arrived(p, "publish", scopes, input) EXCEPT
                   !.overlap = Overlapping(p, k)]
  IN  /\ req[p].pc = "idle"
      \* identifiers are caller-scoped: a checksum belongs to one token
      /\ runner[k].status # "none" => runner[k].scopes = scopes
      /\ IF runner[k].status = "none"
         THEN /\ runner' = [runner EXCEPT ![k] = [status |-> "running", owner |-> p,
                                                  scopes |-> scopes, result |-> NoResp]]
              /\ req' = [req EXCEPT ![p] = [issued EXCEPT !.pc = "internalPublish"]]
         ELSE /\ runner' = runner
              /\ req' = [req EXCEPT ![p] = [issued EXCEPT !.pc = "await"]]
      /\ UNCHANGED <<project, getStarted, strict, baseSchema, actions, versions, cdn>>
      /\ requests < MaxRequests
      /\ requests' = requests + 1

\* a waiting caller receives the stored outcome
Await(p) ==
  /\ req[p].pc = "await"
  /\ runner[req[p].input.checksum].status = "done"
  /\ req' = [req EXCEPT ![p] = Done(@, runner[req[p].input.checksum].result)]
  /\ UNCHANGED <<project, getStarted, strict, baseSchema, actions, versions, cdn, runner, requests>>

\* the ttl of a completed entry elapses
Expire(k) ==
  /\ runner[k].status = "done"
  /\ \A p \in Procs : ~(req[p].pc = "await" /\ req[p].input.checksum = k)
  /\ runner' = [runner EXCEPT ![k] = NoEntry]
  /\ UNCHANGED <<project, getStarted, strict, baseSchema, actions, versions, cdn, req, requests>>

\* the payload internalPublish returns for a model result
publishResponse(result) ==
  IF result.kind = "throw" THEN Failure("Error", result.error)
  ELSE IF result.kind = "error"
  THEN Failure(IF result.error = "MISSING_SERVICE_NAME"
               THEN "SchemaPublishMissingServiceError"
               ELSE "SchemaPublishMissingUrlError", result.error)
  ELSE IF result.conclusion = Conclusion.Neutral
  THEN [NoResp EXCEPT !.typename = "SchemaPublishSuccess",
                      !.initial = result.isInitial, !.valid = TRUE]
  ELSE [NoResp EXCEPT !.typename = result.typename, !.initial = result.isInitial,
                      !.valid = result.isComposable, !.errors = result.errors,
                      !.changes = result.changes,
                      !.message = IF result.updates = {} THEN Null ELSE "updates"]

\* every publish is treated as forced
publishResultForced(input) ==
  LET latest == getLatestSchemas(input.target)
      forced == [input EXCEPT !.force = TRUE]
  IN  IF isCompositeSchemaProject
      THEN compositePublish(forced, project, strict, latest.schemas,
                            latest.hasVersion, baseSchema[input.target])
      ELSE IF project.type = "SINGLE"
      THEN singlePublish(forced, project, strict, latest.schemas,
                         latest.hasVersion, baseSchema[input.target])
      ELSE Thrown("Not implemented")

\* the model's result for a publish against the state as it is now
publishResultNow(input) ==
  LET latest == getLatestSchemas(input.target)
  IN  IF isCompositeSchemaProject
      THEN compositePublish(input, project, strict, latest.schemas,
                            latest.hasVersion, baseSchema[input.target])
      ELSE IF project.type = "SINGLE"
      THEN singlePublish(input, project, strict, latest.schemas,
                         latest.hasVersion, baseSchema[input.target])
      ELSE Thrown("Not implemented")

\* every conclusion leads to publishNewVersion
concludesAnything(result) == result.kind = "result"

\* publishResult.conclusion === Conclusion.Publish
concludesPublish(result) ==
  result.kind = "result" /\ result.conclusion = Conclusion.Publish

\* internalPublish up to the model's conclusion, `result`
internalPublish(p, result) ==
  LET r == req[p]
      leave(resp) == /\ req' = [req EXCEPT ![p] = Done(@, resp)]
                     /\ runner' = Settled(p, resp)
  IN  /\ r.pc = "internalPublish"
      /\ IF ~ensureTargetAccess(r.scopes, "REGISTRY_WRITE")
         THEN leave(AccessError("target:registry:write"))
         ELSE IF ~ensureTargetAccess(r.scopes, "REGISTRY_READ")
         THEN leave(AccessError("target:registry:read"))
         ELSE IF concludesPublish(result)
         THEN /\ req' = [req EXCEPT ![p].pc = "publishNewVersion",
                                    ![p].result = result, ![p].executed = TRUE]
              /\ runner' = runner
         ELSE /\ req' = [req EXCEPT ![p] = [Done(@, publishResponse(result)) EXCEPT
                                              !.result = result, !.executed = TRUE]]
              /\ runner' = Settled(p, publishResponse(result))
      /\ getStarted' = IF /\ ensureTargetAccess(r.scopes, "REGISTRY_WRITE")
                          /\ ensureTargetAccess(r.scopes, "REGISTRY_READ")
                       THEN completeGetStartedCheck("publishingSchema")
                       ELSE getStarted
      /\ UNCHANGED <<project, strict, baseSchema, actions, versions, cdn, requests>>

\* internalPublish on the state it finds
InternalPublish(p) == internalPublish(p, publishResultNow(req[p].input))

\* publishNewVersion: getBaseSchema and createVersion
PublishNewVersion(p) ==
  LET r == req[p]
      new == createVersion([isComposable |-> r.result.isComposable,
                            target |-> r.input.target, commit |-> "commit",
                            service |-> r.input.service, schema |-> r.input.sdl,
                            url |-> r.input.url,
                            base_schema |-> baseSchema[r.input.target],
                            metadata |-> r.input.metadata])
  IN  /\ r.pc = "publishNewVersion"
      /\ actions' = new.actions
      /\ versions' = new.versions
      /\ IF r.result.cdn.present
         THEN /\ req' = [req EXCEPT ![p].pc = "updateCDN", ![p].wrote = Len(new.versions)]
              /\ runner' = runner
         ELSE /\ req' = [req EXCEPT ![p] = [Done(@, publishResponse(r.result)) EXCEPT
                                              !.wrote = Len(new.versions)]]
              /\ runner' = Settled(p, publishResponse(r.result))
      /\ UNCHANGED <<project, getStarted, strict, baseSchema, cdn, requests>>

\* the updateCDN call that ends publishNewVersion, sync and updateVersionStatus;
\* publishNewVersion logs a failed upload, the other two rethrow it
afterUpdateCDN(p, ok, r, up, resp) ==
      /\ r.pc = "updateCDN"
      /\ cdn' = up.cdn
      /\ req' = [req EXCEPT ![p] = [Done(@, resp) EXCEPT
                                      !.uploaded = (up.attempted \cap ok # {})]]
      /\ runner' = Settled(p, resp)
      /\ UNCHANGED <<project, getStarted, strict, baseSchema, actions, versions, requests>>

\* every caller of updateCDN rethrows a failed upload
uploadResponseRethrown(r, up) ==
  IF up.failed THEN Failure("Error", "Failed to sync with CDN")
  ELSE IF r.op = "publish" THEN publishResponse(r.result)
  ELSE [NoResp EXCEPT !.typename = "ok", !.valid = r.result.isComposable]

\* what the caller of updateCDN answers: publishNewVersion logs a failed
\* upload, sync and updateVersionStatus rethrow it
uploadResponse(r, up) ==
  IF r.op = "publish" THEN publishResponse(r.result)
  ELSE IF up.failed THEN Failure("Error", "Failed to sync with CDN")
  ELSE [NoResp EXCEPT !.typename = "ok", !.valid = r.result.isComposable]

\* updateCDN with the uploads in `ok` succeeding
UpdateCDN(p, ok) ==
  afterUpdateCDN(p, ok, req[p], updateCDN(req[p].input.target, req[p].result.cdn, ok),
                 uploadResponse(req[p], updateCDN(req[p].input.target, req[p].result.cdn, ok)))

\* the caller has its response; the handler is free again
Return(p) ==
  /\ req[p].pc = "done"
  /\ req' = [q \in Procs |-> IF q = p THEN IdleReq
                            ELSE [req[q] EXCEPT !.overlap = @ \ {p}, !.prior = @ \ {p}]]
  /\ UNCHANGED <<project, getStarted, strict, baseSchema, actions, versions, cdn, runner, requests>>

\*--------------------------------------------------------------------------
\* SchemaPublisher.delete
\*--------------------------------------------------------------------------
\* no project refuses a delete
deleteAlwaysAvailable == Null

\* only the legacy registry model is refused
deleteUnavailableForLegacy ==
  IF project.legacy
  THEN "Deleting schemas is not available for the legacy registry model"
  ELSE Null

\* the HiveError delete throws for a project it does not serve, Null if it serves it
deleteUnavailable ==
  IF ~isCompositeSchemaProject
  THEN "Deleting schemas is not available for " \o project.type \o "-type projects"
  ELSE IF project.legacy
  THEN "Deleting schemas is not available for the legacy registry model"
  ELSE Null

\* the model's result as the request keeps it
deleteResult(deletion) ==
  [Thrown(Null) EXCEPT
                   !.kind = "result", !.conclusion = deletion.conclusion,
                   !.errors = deletion.errors, !.isComposable = deletion.isComposable,
                   !.schemaAfter = deletion.service, !.baseSchema = deletion.baseSchema,
                   !.validation = [ran |-> deletion.validated,
                                   isComposable |-> deletion.isComposable,
                                   hasBreakingChanges |-> deletion.hasBreakingChanges]]

\* delete up to the model's conclusion, `deletion`
delete(p, input, scopes, issued, deletion, result) ==
  LET leave(resp) == req' = [req EXCEPT ![p] = Done(issued, resp)]
  IN  /\ req[p].pc = "idle"
      /\ IF ~ensureTargetAccess(scopes, "REGISTRY_WRITE")
         THEN leave(AccessError("target:registry:write"))
         ELSE IF ~ensureTargetAccess(scopes, "REGISTRY_READ")
         THEN leave(AccessError("target:registry:read"))
         ELSE IF deleteUnavailable # Null
         THEN leave(Failure("HiveError", deleteUnavailable))
         ELSE IF deletion.conclusion = Conclusion.Reject
         THEN req' = [req EXCEPT ![p] = [Done(issued, [NoResp EXCEPT !.typename = "errors",
                                                                    !.errors = deletion.errors])
                                           EXCEPT !.result = result, !.executed = TRUE]]
         ELSE req' = [req EXCEPT ![p] = [issued EXCEPT !.pc = "deleteSchema",
                                                       !.result = result, !.executed = TRUE]]
      /\ UNCHANGED <<project, getStarted, strict, baseSchema, actions, versions, cdn, runner>>
      /\ requests < MaxRequests
      /\ requests' = requests + 1

\* the model's conclusion for a delete against the state as it is now
deletionNow(input) ==
  compositeDelete(input, project, strict, getLatestSchemas(input.target).schemas,
                  baseSchema[input.target])

\* SchemaPublisher.delete
Delete(p, input, scopes) ==
  delete(p, input, scopes, Arrived(p, "delete", scopes, input), deletionNow(input),
         deleteResult(deletionNow(input)))

\* a delete that records every version as composable
DeleteSchemaAsComposable(p) ==
  LET r == req[p]
      new == deleteSchema([isComposable |-> TRUE,
                           serviceName |-> r.result.schemaAfter.service_name,
                           baseSchema |-> r.result.baseSchema,
                           target |-> r.input.target])
  IN  /\ r.pc = "deleteSchema"
      /\ actions' = new.actions
      /\ versions' = new.versions
      /\ req' = [req EXCEPT ![p] = [Done(@, [NoResp EXCEPT
                                               !.typename = "ok",
                                               !.ok = r.result.schemaAfter.service_name])
                                      EXCEPT !.wrote = Len(new.versions)]]
      /\ UNCHANGED <<project, getStarted, strict, baseSchema, cdn, runner, requests>>

\* delete from schemaManager.deleteSchema on
DeleteSchema(p) ==
  LET r == req[p]
      new == deleteSchema([isComposable |-> r.result.isComposable,
                           serviceName |-> r.result.schemaAfter.service_name,
                           baseSchema |-> r.result.baseSchema,
                           target |-> r.input.target])
  IN  /\ r.pc = "deleteSchema"
      /\ actions' = new.actions
      /\ versions' = new.versions
      /\ req' = [req EXCEPT ![p] = [Done(@, [NoResp EXCEPT
                                               !.typename = "ok",
                                               !.ok = r.result.schemaAfter.service_name])
                                      EXCEPT !.wrote = Len(new.versions)]]
      /\ UNCHANGED <<project, getStarted, strict, baseSchema, cdn, runner, requests>>

\*--------------------------------------------------------------------------
\* SchemaPublisher.check
\*--------------------------------------------------------------------------
\* the model's check against the state as it is now
checkResultNow(input) ==
  LET latest == getLatestSchemas(input.target)
  IN  IF isCompositeSchemaProject
      THEN compositeCheck(input, FALSE, project, strict, latest.schemas,
                          baseSchema[input.target])
      ELSE singleCheck(input, FALSE, project, strict, latest.schemas,
                       baseSchema[input.target])

\* a payload whose `valid` is the composability alone
checkResponseComposable(checked) ==
  [NoResp EXCEPT !.typename = "SchemaCheck",
                 !.valid = checked.validationResult.isComposable,
                 !.initial = checked.isInitial,
                 !.errors = checked.validationResult.errors,
                 !.changes = checked.validationResult.changes]

\* the payload check returns
checkResponse(checked) ==
  [NoResp EXCEPT !.typename = "SchemaCheck",
                 !.valid = /\ checked.validationResult.isComposable
                           /\ ~checked.validationResult.hasBreakingChanges,
                 !.initial = checked.isInitial,
                 !.errors = checked.validationResult.errors,
                 !.changes = checked.validationResult.changes]

\* check: authorize, load, complete the get-started step, run the model
check(p, issued, checked) ==
  /\ req[p].pc = "idle"
  /\ IF ~ensureTargetAccess(issued.scopes, "REGISTRY_READ")
     THEN /\ req' = [req EXCEPT ![p] = Done(issued, AccessError("target:registry:read"))]
          /\ getStarted' = getStarted
     ELSE /\ getStarted' = completeGetStartedCheck("checkingSchema")
          /\ req' = [req EXCEPT ![p] =
                       Done(issued,
                            IF isCompositeSchemaProject \/ project.type = "SINGLE"
                            THEN checkResponse(checked)
                            ELSE Failure("Error", "Not implemented"))]
  /\ requests < MaxRequests
  /\ requests' = requests + 1
  /\ UNCHANGED <<project, strict, baseSchema, actions, versions, cdn, runner>>

Check(p, input, scopes) ==
  check(p, Arrived(p, "check", scopes, input), checkResultNow(input))

\*--------------------------------------------------------------------------
\* Storage failures while a version is written
\*--------------------------------------------------------------------------
\* a failed write that keeps the action row it had inserted
transactionTorn(rows, committed) ==
  IF committed THEN rows ELSE [actions |-> rows.actions, versions |-> versions]

\* the rows of a write are stored together or not at all
transaction(rows, committed) ==
  IF committed THEN rows ELSE [actions |-> actions, versions |-> versions]

StorageError == Failure("Error", "storage")

\* publishNewVersion when storage.createVersion rejects: the error leaves
\* internalPublish and the runner hands it to the callers
CreateVersionFails(p) ==
  LET r == req[p]
      kept == transaction(createVersion([isComposable |-> r.result.isComposable,
                                         target |-> r.input.target, commit |-> "commit",
                                         service |-> r.input.service, schema |-> r.input.sdl,
                                         url |-> r.input.url,
                                         base_schema |-> baseSchema[r.input.target],
                                         metadata |-> r.input.metadata]), FALSE)
  IN  /\ r.pc = "publishNewVersion"
      /\ actions' = kept.actions
      /\ versions' = kept.versions
      /\ req' = [req EXCEPT ![p] = Done(@, StorageError)]
      /\ runner' = Settled(p, StorageError)
      /\ UNCHANGED <<project, getStarted, strict, baseSchema, cdn, requests>>

\* delete when storage.deleteSchema rejects
DeleteSchemaFails(p) ==
  LET r == req[p]
      kept == transaction(deleteSchema([isComposable |-> r.result.isComposable,
                                        serviceName |-> r.result.schemaAfter.service_name,
                                        baseSchema |-> r.result.baseSchema,
                                        target |-> r.input.target]), FALSE)
  IN  /\ r.pc = "deleteSchema"
      /\ actions' = kept.actions
      /\ versions' = kept.versions
      /\ req' = [req EXCEPT ![p] = Done(@, StorageError)]
      /\ UNCHANGED <<project, getStarted, strict, baseSchema, cdn, runner, requests>>

\*--------------------------------------------------------------------------
\* SchemaPublisher.sync, SchemaPublisher.updateVersionStatus
\*--------------------------------------------------------------------------
onlySchemasWithSDL(schemas) == Filter(schemas, isSchemaWithSDL)

\* what sync and updateVersionStatus hand to updateCDN for a version
versionBundle(versionId, schemas) ==
  [present |-> TRUE,
   schemas |-> onlySchemasWithSDL(getSchemasOfVersion(versionId)),
   supergraph |-> IF project.type = "FEDERATION"
                  THEN orchestratorSupergraph(project.type, Map(schemas, createSchemaObject))
                  ELSE {}]

\* sync up to its updateCDN call
Sync(p, target, scopes) ==
  LET latestVersion == getMaybeLatestComposableVersion(target)
      issued == Arrived(p, "sync", scopes,
                        [NoInput EXCEPT !.target = target, !.version = latestVersion])
      bundle == versionBundle(latestVersion,
                              onlySchemasWithSDL(getSchemasOfVersion(latestVersion)))
      leave(resp) == req' = [req EXCEPT ![p] = Done(issued, resp)]
  IN  /\ req[p].pc = "idle"
      /\ IF ~ensureTargetAccess(scopes, "REGISTRY_WRITE")
         THEN leave(AccessError("target:registry:write"))
         ELSE IF ~ensureTargetAccess(scopes, "REGISTRY_READ")
         THEN leave(AccessError("target:registry:read"))
         ELSE IF latestVersion = 0
         THEN leave(Failure("Error", "Failed to sync with CDN"))
         ELSE req' = [req EXCEPT ![p] =
                        [issued EXCEPT !.pc = "updateCDN", !.executed = TRUE,
                                       !.result = [Thrown(Null) EXCEPT
                                                     !.kind = "result", !.isComposable = TRUE,
                                                     !.cdn = bundle]]]
      /\ UNCHANGED <<project, getStarted, strict, baseSchema, actions, versions, cdn, runner>>
      /\ requests < MaxRequests
      /\ requests' = requests + 1

\* storage.updateVersionStatus
storageUpdateVersionStatus(version, valid) ==
  [versions EXCEPT ![version].isComposable = valid]

\* the newest version of the target, composable or not, in rows `rows`
latestVersionIn(rows, target) ==
  IF {i \in DOMAIN rows : rows[i].target = target} = {} THEN 0
  ELSE Max({i \in DOMAIN rows : rows[i].target = target})

\* getLatestValidVersion on the rows the update left
latestValidVersionIn(rows, target) ==
  IF {i \in DOMAIN rows : rows[i].target = target /\ rows[i].isComposable} = {} THEN 0
  ELSE Max({i \in DOMAIN rows : rows[i].target = target /\ rows[i].isComposable})

\* updateVersionStatus up to its updateCDN call
UpdateVersionStatus(p, input, scopes) ==
  LET issued == Arrived(p, "updateVersionStatus", scopes, input)
      updated == storageUpdateVersionStatus(input.version, input.valid)
      schemas == getSchemasOfVersion(input.version)
      bundle == versionBundle(input.version, Filter(schemas, isAddedOrModified))
      result == [Thrown(Null) EXCEPT !.kind = "result", !.isComposable = input.valid]
      leave(resp) == req' = [req EXCEPT ![p] = Done(issued, resp)]
  IN  /\ req[p].pc = "idle"
      /\ input.version \in VersionsOf(input.target)
      /\ IF ~project.legacy
         THEN /\ leave(Failure("Error", "Updating version status is only supported for projects using the legacy registry model"))
              /\ versions' = versions
         ELSE IF ~ensureTargetAccess(scopes, "REGISTRY_WRITE")
         THEN /\ leave(AccessError("target:registry:write"))
              /\ versions' = versions
         ELSE /\ versions' = updated
              /\ IF ~input.valid
                 THEN req' = [req EXCEPT ![p] =
                                [Done(issued, [NoResp EXCEPT !.typename = "ok"])
                                   EXCEPT !.result = result, !.executed = TRUE]]
                 ELSE IF ~ensureTargetAccess(scopes, "REGISTRY_READ")
                 THEN req' = [req EXCEPT ![p] =
                                [Done(issued, AccessError("target:registry:read"))
                                   EXCEPT !.result = result, !.executed = TRUE]]
                 ELSE IF latestValidVersionIn(updated, input.target) = input.version
                 THEN req' = [req EXCEPT ![p] =
                                [issued EXCEPT !.pc = "updateCDN", !.executed = TRUE,
                                               !.result = [result EXCEPT !.cdn = bundle]]]
                 ELSE req' = [req EXCEPT ![p] =
                                [Done(issued, [NoResp EXCEPT !.typename = "ok", !.valid = TRUE])
                                   EXCEPT !.result = result, !.executed = TRUE]]
      /\ UNCHANGED <<project, getStarted, strict, baseSchema, actions, cdn, runner>>
      /\ requests < MaxRequests
      /\ requests' = requests + 1

\*--------------------------------------------------------------------------
\* SchemaManager.updateServiceName
\*--------------------------------------------------------------------------
\* storage.updateServiceName: the commit row gets the new name
storageUpdateServiceName(commit, name) ==
  [actions EXCEPT ![commit].service_name = name]

\* the HiveError updateServiceName throws, Null if it goes on to the update
updateServiceNameError(input) ==
  IF ~project.legacy
  THEN "This operation is available only for projects using the legacy registry model"
  ELSE IF ~isCompositeSchemaProject
  THEN "Project type doesn't support service name updates"
  ELSE IF ~serviceExists(getSchemasOfVersion(input.version), input.service)
  THEN "Couldn't find service"
  ELSE IF trim(input.newName) = ""
  THEN "Service name can't be empty"
  ELSE IF serviceExists(getSchemasOfVersion(input.version), input.newName)
  THEN "Service already exists"
  ELSE Null

\* SchemaManager.updateServiceName
UpdateServiceName(p, input, scopes) ==
  LET issued == Arrived(p, "updateServiceName", scopes, input)
      leave(resp) == req' = [req EXCEPT ![p] = Done(issued, resp)]
  IN  /\ req[p].pc = "idle"
      /\ input.version \in VersionsOf(input.target)
      /\ IF ~ensureTargetAccess(scopes, "REGISTRY_WRITE")
         THEN /\ leave(AccessError("target:registry:write"))
              /\ actions' = actions
         ELSE IF updateServiceNameError(input) # Null
         THEN /\ leave(Failure("HiveError", updateServiceNameError(input)))
              /\ actions' = actions
         ELSE /\ actions' = storageUpdateServiceName(
                              findService(getSchemasOfVersion(input.version), input.service).id,
                              input.newName)
              /\ req' = [req EXCEPT ![p] =
                           [Done(issued, [NoResp EXCEPT !.typename = "ok"])
                              EXCEPT !.executed = TRUE]]
      /\ UNCHANGED <<project, getStarted, strict, baseSchema, versions, cdn, runner>>
      /\ requests < MaxRequests
      /\ requests' = requests + 1

\*--------------------------------------------------------------------------
\* SchemaManager operations called on their own
\*--------------------------------------------------------------------------
\* storage.updateSchemaUrlOfVersion: the commit row of the version gets the url
storageUpdateSchemaUrlOfVersion(version, commit, url) ==
  IF commit \in versions[version].live
  THEN [actions EXCEPT ![commit].service_url = url] ELSE actions

\* a SchemaManager operation that requires REGISTRY_WRITE and then hands
\* `new`, the rows it leaves, to the store
managerWrite(p, op, target, scopes, new) ==
  LET issued == Arrived(p, op, scopes, [NoInput EXCEPT !.target = target])
  IN  /\ req[p].pc = "idle"
      /\ IF ~ensureTargetAccess(scopes, "REGISTRY_WRITE")
         THEN /\ req' = [req EXCEPT ![p] = Done(issued, AccessError("target:registry:write"))]
              /\ actions' = actions
              /\ versions' = versions
         ELSE /\ req' = [req EXCEPT ![p] =
                           [Done(issued, [NoResp EXCEPT !.typename = "ok"])
                              EXCEPT !.executed = TRUE]]
              /\ actions' = new.actions
              /\ versions' = new.versions
      /\ requests < MaxRequests
      /\ requests' = requests + 1
      /\ UNCHANGED <<project, getStarted, strict, baseSchema, cdn, runner>>

\* SchemaManager.createVersion
CreateVersion(p, input, scopes) ==
  managerWrite(p, "createVersion", input.target, scopes, createVersion(input))

\* SchemaManager.deleteSchema
ManagerDeleteSchema(p, input, scopes) ==
  managerWrite(p, "deleteSchema", input.target, scopes, deleteSchema(input))

\* SchemaManager.updateSchemaVersionStatus
UpdateSchemaVersionStatus(p, input, scopes) ==
  /\ input.version \in VersionsOf(input.target)
  /\ managerWrite(p, "updateSchemaVersionStatus", input.target, scopes,
                  [actions |-> actions,
                   versions |-> storageUpdateVersionStatus(input.version, input.valid)])

\* SchemaManager.updateSchemaUrl
UpdateSchemaUrl(p, input, scopes) ==
  /\ input.version \in VersionsOf(input.target)
  /\ input.commit \in DOMAIN actions
  /\ managerWrite(p, "updateSchemaUrl", input.target, scopes,
                  [actions |-> storageUpdateSchemaUrlOfVersion(input.version, input.commit,
                                                               input.url),
                   versions |-> versions])

\*--------------------------------------------------------------------------
\* SchemaManager.updateBaseSchema
\*--------------------------------------------------------------------------
UpdateBaseSchema(target, base, scopes) ==
  /\ ensureTargetAccess(scopes, "REGISTRY_READ")
  /\ baseSchema[target] # base
  /\ baseSchema' = [baseSchema EXCEPT ![target] = base]
  /\ UNCHANGED <<project, getStarted, strict, actions, versions, cdn, runner, req, requests>>

\*--------------------------------------------------------------------------
\* Inputs
\*--------------------------------------------------------------------------
AllScopes == {"REGISTRY_READ", "REGISTRY_WRITE"}

ReadOnly == {"REGISTRY_READ"}

PublishInput(service, url, sdl, force, accept, checksum) ==
  [NoInput EXCEPT !.target = "t1", !.service = service, !.url = url, !.sdl = sdl,
                  !.force = force, !.accept = accept, !.checksum = checksum]

DeleteInput(service, force) ==
  [NoInput EXCEPT !.target = "t1", !.service = service, !.force = force]

StatusInput(version, valid) ==
  [NoInput EXCEPT !.target = "t1", !.version = version, !.valid = valid]

\*--------------------------------------------------------------------------
\* All operations, two callers
\*--------------------------------------------------------------------------
SomePublishes ==
  {PublishInput("a", "u1", "P", FALSE, FALSE, "k1")}
  \cup {PublishInput("b", "u1", "Qx", f, FALSE, "k2") : f \in BOOLEAN}

Next ==
  \/ \E input \in SomePublishes, scopes \in {AllScopes, ReadOnly} :
       Publish("p1", input, scopes)
  \/ \E input \in SomePublishes : Publish("p2", input, AllScopes)
  \/ \E p \in Procs : InternalPublish(p)
  \/ \E p \in Procs : PublishNewVersion(p)
  \/ \E p \in Procs, ok \in {{}, ResourceTypes} : UpdateCDN(p, ok)
  \/ \E p \in Procs : Await(p)
  \/ \E k \in Checksums : Expire(k)
  \/ \E force \in BOOLEAN, scopes \in {AllScopes, ReadOnly} :
       Delete("p1", DeleteInput("a", force), scopes)
  \/ \E p \in Procs : DeleteSchema(p)
  \/ \E scopes \in {AllScopes, ReadOnly} : Sync("p1", "t1", scopes)
  \/ \E version \in DOMAIN versions, valid \in BOOLEAN, scopes \in {AllScopes, ReadOnly} :
       UpdateVersionStatus("p1", StatusInput(version, valid), scopes)
  \/ \E p \in Procs : Return(p)

Spec == Init /\ [][Next]_vars

\*--------------------------------------------------------------------------
\* Concurrent publishes of a federation project
\*--------------------------------------------------------------------------
InitRunner == InitProjects({"FEDERATION"}, BOOLEAN)

RunnerPublishes ==
  {PublishInput("a", "u1", "P", FALSE, FALSE, "k1"),
   PublishInput("b", "u1", "Qx", FALSE, FALSE, "k1"),
   PublishInput("a", "u1", "Q", FALSE, FALSE, "k2")}

NextRunner ==
  \/ \E p \in Procs, input \in RunnerPublishes : Publish(p, input, AllScopes)
  \/ \E p \in Procs : InternalPublish(p)
  \/ \E p \in Procs : PublishNewVersion(p)
  \/ \E p \in Procs, ok \in {{}, ResourceTypes} : UpdateCDN(p, ok)
  \/ \E p \in Procs : Await(p)
  \/ \E k \in Checksums : Expire(k)
  \/ \E p \in Procs : Return(p)

SpecRunner == InitRunner /\ [][NextRunner]_vars

\*--------------------------------------------------------------------------
\* Successive publishes by one caller, every project type and registry model
\*--------------------------------------------------------------------------
InitPublish == InitProjects(ProjectTypes, BOOLEAN)

SuccessivePublishes ==
  {PublishInput("a", "u1", "P", FALSE, FALSE, "k1"),
   PublishInput("a", "u1", "P_ws", FALSE, FALSE, "k1"),
   PublishInput("a", "u2", "P", FALSE, FALSE, "k1"),
   PublishInput("A", "u1", "P", FALSE, FALSE, "k1"),
   PublishInput("", "u1", "P", FALSE, FALSE, "k1"),
   PublishInput("a", Null, "P", FALSE, FALSE, "k1")}
  \cup {PublishInput("a", "u1", "Q", f, FALSE, "k1") : f \in BOOLEAN}
  \cup {PublishInput("b", "u1", "Qx", f, FALSE, "k1") : f \in BOOLEAN}

NextPublish ==
  \/ \E input \in SuccessivePublishes : Publish("p1", input, AllScopes)
  \/ InternalPublish("p1")
  \/ PublishNewVersion("p1")
  \/ \E ok \in {{}, ResourceTypes} : UpdateCDN("p1", ok)
  \/ Await("p1")
  \/ Expire("k1")
  \/ Return("p1")

SpecPublish == InitPublish /\ [][NextPublish]_vars

\*--------------------------------------------------------------------------
\* Publishes and deletes by one caller, composite projects
\*--------------------------------------------------------------------------
InitDelete == InitProjects({"FEDERATION", "STITCHING"}, BOOLEAN)

DeletePublishes ==
  {PublishInput("a", "u1", "P", FALSE, FALSE, "k1"),
   PublishInput("b", "u1", "Qx", FALSE, FALSE, "k2"),
   PublishInput("b", "u1", "Q", FALSE, FALSE, "k2")}

NextDelete ==
  \/ \E input \in DeletePublishes : Publish("p1", input, AllScopes)
  \/ InternalPublish("p1")
  \/ PublishNewVersion("p1")
  \/ \E ok \in {{}, ResourceTypes} : UpdateCDN("p1", ok)
  \/ Await("p1")
  \/ \E k \in Checksums : Expire(k)
  \/ \E service \in {"a", "b", "c"}, force \in BOOLEAN, scopes \in {AllScopes, ReadOnly} :
       Delete("p1", DeleteInput(service, force), scopes)
  \/ DeleteSchema("p1")
  \/ Return("p1")

SpecDelete == InitDelete /\ [][NextDelete]_vars

\*--------------------------------------------------------------------------
\* Successive publishes by two callers taking turns: a completed request
\* stays in view until the next one has completed
\*--------------------------------------------------------------------------
InitSuccessive == InitProjects({"FEDERATION", "SINGLE"}, BOOLEAN)

ChecksumOf(p) == IF p = "p1" THEN "k1" ELSE "k2"

TurnPublishes(p) ==
  {PublishInput("a", "u1", "P", FALSE, FALSE, ChecksumOf(p)),
   PublishInput("b", "u1", "P", FALSE, FALSE, ChecksumOf(p)),
   PublishInput("b", "u1", "Qx", FALSE, FALSE, ChecksumOf(p)),
   PublishInput("A", "u1", "Qx", TRUE, FALSE, ChecksumOf(p))}

OthersDone(p) == \A q \in Procs \ {p} : req[q].pc = "done"

\* the request that followed p's has completed
Followed(p) == \E q \in Procs \ {p} : req[q].pc = "done" /\ p \in req[q].prior

NextSuccessive ==
  \/ \E p \in Procs : \E input \in TurnPublishes(p) :
       /\ requests = 0 \/ OthersDone(p)
       /\ runner[input.checksum].status = "none"
       /\ Publish(p, input, AllScopes)
  \/ \E p \in Procs : InternalPublish(p)
  \/ \E p \in Procs : PublishNewVersion(p)
  \/ \E p \in Procs, ok \in {{}, ResourceTypes} : UpdateCDN(p, ok)
  \/ \E k \in Checksums : Expire(k)
  \/ \E p \in Procs : Followed(p) /\ Return(p)

SpecSuccessive == InitSuccessive /\ [][NextSuccessive]_vars

\*--------------------------------------------------------------------------
\* Publishes of a modern-model project whose base schema changes
\*--------------------------------------------------------------------------
InitBase == InitProjects({"STITCHING", "SINGLE"}, {FALSE})

BasePublishes ==
  {PublishInput("a", "u1", "P", FALSE, FALSE, "k1"),
   PublishInput("a", "u1", "Q", FALSE, FALSE, "k1")}
  \cup {PublishInput("b", "u1", "Qx", f, FALSE, "k2") : f \in BOOLEAN}

NextBase ==
  \/ \E input \in BasePublishes : Publish("p1", input, AllScopes)
  \/ InternalPublish("p1")
  \/ PublishNewVersion("p1")
  \/ \E ok \in {{}, ResourceTypes} : UpdateCDN("p1", ok)
  \/ Await("p1")
  \/ \E k \in Checksums : Expire(k)
  \/ \E base \in BaseSchemas : UpdateBaseSchema("t1", base, AllScopes)
  \/ Return("p1")

SpecBase == InitBase /\ [][NextBase]_vars

\*--------------------------------------------------------------------------
\* Deletes on a modern composite project whose base schema changes
\*--------------------------------------------------------------------------
InitModernComposite == InitProjects({"FEDERATION", "STITCHING"}, {FALSE})

ModernPublishes ==
  {PublishInput("a", "u1", "P", FALSE, FALSE, "k1"),
   PublishInput("b", "u1", "PQ", FALSE, FALSE, "k2"),
   PublishInput("b", "u1", "Qx", FALSE, FALSE, "k2")}

ModernDeletes == {DeleteInput(service, force) : service \in {"a", "b"}, force \in BOOLEAN}

NextModernComposite ==
  \/ \E input \in ModernPublishes : Publish("p1", input, AllScopes)
  \/ InternalPublish("p1")
  \/ PublishNewVersion("p1")
  \/ UpdateCDN("p1", ResourceTypes)
  \/ Await("p1")
  \/ \E k \in Checksums : Expire(k)
  \/ \E input \in ModernDeletes : Delete("p1", input, AllScopes)
  \/ DeleteSchema("p1")
  \/ \E base \in BaseSchemas : UpdateBaseSchema("t1", base, AllScopes)
  \/ Return("p1")

SpecModernComposite == InitModernComposite /\ [][NextModernComposite]_vars

\*--------------------------------------------------------------------------
\* Two callers writing to one target, with storage failures
\*--------------------------------------------------------------------------
InitStorage == InitProjects({"FEDERATION", "SINGLE"}, {FALSE})

StoragePublishes ==
  {PublishInput("a", "u1", "P", FALSE, FALSE, "k1"),
   PublishInput("a", "u1", "Q", TRUE, FALSE, "k1"),
   PublishInput("b", "u1", "PQ", FALSE, FALSE, "k2")}

StorageDeletes == {DeleteInput("a", TRUE), DeleteInput("b", FALSE)}

NextStorage ==
  \/ \E p \in Procs, input \in StoragePublishes : Publish(p, input, AllScopes)
  \/ \E p \in Procs : InternalPublish(p)
  \/ \E p \in Procs : PublishNewVersion(p)
  \/ \E p \in Procs : CreateVersionFails(p)
  \/ \E p \in Procs : UpdateCDN(p, ResourceTypes)
  \/ \E p \in Procs : Await(p)
  \/ \E k \in Checksums : Expire(k)
  \/ \E input \in StorageDeletes : Delete("p1", input, AllScopes)
  \/ DeleteSchema("p1")
  \/ DeleteSchemaFails("p1")
  \/ \E p \in Procs : Return(p)

SpecStorage == InitStorage /\ [][NextStorage]_vars

\*--------------------------------------------------------------------------
\* Checks next to the publishes of another caller, every project type
\*--------------------------------------------------------------------------
InitCheck == InitProjects(ProjectTypes, BOOLEAN)

CheckedPublishes ==
  {PublishInput("a", "u1", "P", FALSE, FALSE, "k1"),
   PublishInput("b", "u1", "Qx", TRUE, FALSE, "k1")}

Checks ==
  {PublishInput("a", "u1", "Q", FALSE, FALSE, Null),
   PublishInput("b", "u1", "PQ", FALSE, FALSE, Null),
   PublishInput("a", "u1", "P_ws", FALSE, FALSE, Null)}

NextCheck ==
  \/ \E input \in CheckedPublishes : Publish("p1", input, AllScopes)
  \/ InternalPublish("p1")
  \/ PublishNewVersion("p1")
  \/ UpdateCDN("p1", ResourceTypes)
  \/ Await("p1")
  \/ Expire("k1")
  \/ \E input \in Checks, scopes \in {AllScopes, ReadOnly, {}} : Check("p2", input, scopes)
  \/ \E p \in Procs : Return(p)

SpecCheck == InitCheck /\ [][NextCheck]_vars

\*--------------------------------------------------------------------------
\* Migration of the commits of the previous registry (schema-registry-v2.sql)
\*--------------------------------------------------------------------------
\* a migration that marks every commit of a composite project as ADD
migratedActionAdd(commits, i) ==
  IF ~isCompositeSchemaProject THEN "N/A" ELSE "ADD"

\* the action the migration gives commit i: N/A, then ADD for the first
\* commit of a service on its target and MODIFY for the others, in
\* FEDERATION and STITCHING projects only
migratedAction(commits, i) ==
  IF ~isCompositeSchemaProject THEN "N/A"
  ELSE IF \E j \in 1..(i - 1) : /\ commits[j].service = commits[i].service
                               /\ commits[j].target = commits[i].target
  THEN "MODIFY" ELSE "ADD"

\* the version rows of the previous registry: every commit created one
\* version, which points to it
legacyVersions(commits, edges) ==
  [i \in DOMAIN commits |->
     [target |-> commits[i].target, valid |-> commits[i].valid, base_schema |-> Null,
      commit_id |-> i, edges |-> edges[i]]]

\* steps 1 to 3 of the migration: commits become registry_actions, versions
\* become registry_versions, version_commit becomes registry_version_action
migrateStore(commits, legacy) ==
  [actions |-> [i \in DOMAIN commits |->
                  [id |-> i, action |-> migratedAction(commits, i),
                   target |-> commits[i].target,
                   service_name |-> commits[i].service, service_url |-> commits[i].url,
                   sdl |-> commits[i].content, metadata |-> Null,
                   commit |-> "commit"]],
   versions |-> [i \in DOMAIN legacy |->
                   [id |-> i, target |-> legacy[i].target, isComposable |-> legacy[i].valid,
                    base_schema |-> legacy[i].base_schema, actionId |-> legacy[i].commit_id,
                    live |-> legacy[i].edges]]]

\* commits become actions, versions and their commit edges are copied
migrate(commits, edges) == migrateStore(commits, legacyVersions(commits, edges))

\* a commit of the previous registry with the version it created
Commit(service, content) ==
  [service |-> service, url |-> IF service = Null THEN Null ELSE "u1",
   content |-> content, target |-> "t1", valid |-> TRUE]

\* the commits a target had before the migration
CommitHistories(types) ==
  IF types \subseteq {"FEDERATION", "STITCHING"}
  THEN {<<>>, <<Commit("a", "P")>>, <<Commit("a", "P"), Commit("a", "PQ")>>,
        <<Commit("a", "P"), Commit("b", "Q")>>}
  ELSE {<<>>, <<Commit(Null, "P")>>, <<Commit(Null, "P"), Commit(Null, "PQ")>>}

\* the commit edges of the versions of a history: every service's newest commit
commitEdges(commits) ==
  [i \in DOMAIN commits |->
     {j \in 1..i : /\ commits[j].target = commits[i].target
                   /\ \A k \in (j + 1)..i : \/ commits[k].service # commits[j].service
                                            \/ commits[k].target # commits[j].target}]

InitMigrated ==
  /\ \E composite \in BOOLEAN :
       LET types == IF composite THEN {"FEDERATION", "STITCHING"} ELSE {"SINGLE", "CUSTOM"}
       IN  /\ project \in [type : types, legacy : BOOLEAN]
           /\ \E commits \in CommitHistories(types) :
                /\ actions = migrate(commits, commitEdges(commits)).actions
                /\ versions = migrate(commits, commitEdges(commits)).versions
  /\ getStarted = {}
  /\ strict \in BOOLEAN
  /\ baseSchema = [t \in Targets |-> Null]
  /\ cdn = [t \in Targets |-> [r \in ResourceTypes |-> NoResource]]
  /\ runner = [k \in Checksums |-> NoEntry]
  /\ req = [p \in Procs |-> IdleReq]
  /\ requests = 0

MigratedPublishes ==
  {PublishInput("a", "u1", "P", FALSE, FALSE, "k1"),
   PublishInput("a", "u1", "Q", TRUE, FALSE, "k1"),
   PublishInput("b", "u1", "PQ", FALSE, FALSE, "k2"),
   PublishInput(Null, Null, "Q", TRUE, FALSE, "k2")}

NextMigrated ==
  \/ \E input \in MigratedPublishes : Publish("p1", input, AllScopes)
  \/ InternalPublish("p1")
  \/ PublishNewVersion("p1")
  \/ UpdateCDN("p1", ResourceTypes)
  \/ Await("p1")
  \/ \E k \in Checksums : Expire(k)
  \/ \E service \in {"a", "b"} : Delete("p1", DeleteInput(service, TRUE), AllScopes)
  \/ DeleteSchema("p1")
  \/ Return("p1")

SpecMigrated == InitMigrated /\ [][NextMigrated]_vars

\*--------------------------------------------------------------------------
\* Repeated publishes within and after the ttl, with failing executions
\*--------------------------------------------------------------------------
InitTtl == InitProjects({"FEDERATION", "CUSTOM"}, {FALSE})

TtlPublishes ==
  {PublishInput("a", "u1", "P", FALSE, FALSE, "k1"),
   PublishInput("b", "u1", "Qx", FALSE, FALSE, "k2")}

NextTtl ==
  \/ \E p \in Procs, input \in TtlPublishes : Publish(p, input, AllScopes)
  \/ \E p \in Procs : InternalPublish(p)
  \/ \E p \in Procs : PublishNewVersion(p)
  \/ \E p \in Procs : CreateVersionFails(p)
  \/ \E p \in Procs : UpdateCDN(p, ResourceTypes)
  \/ \E p \in Procs : Await(p)
  \/ \E k \in Checksums : Expire(k)
  \/ \E p \in Procs : Return(p)

SpecTtl == InitTtl /\ [][NextTtl]_vars

\*--------------------------------------------------------------------------
\* Publishes with and without metadata, projects that support metadata
\*--------------------------------------------------------------------------
InitMetadata == InitProjects({"STITCHING", "SINGLE"}, {FALSE})

MetadataInput(service, sdl, metadata, checksum) ==
  [PublishInput(service, "u1", sdl, FALSE, FALSE, checksum) EXCEPT !.metadata = metadata]

MetadataPublishes ==
  {MetadataInput("a", "P", "m1", "k1"),
   MetadataInput("b", "PQ", "m2", "k2"),
   MetadataInput("a", "PQ", Null, "k1"),
   MetadataInput("b", "Q", Null, "k2")}

NextMetadata ==
  \/ \E input \in MetadataPublishes : Publish("p1", input, AllScopes)
  \/ InternalPublish("p1")
  \/ PublishNewVersion("p1")
  \/ \E ok \in {{}, ResourceTypes} : UpdateCDN("p1", ok)
  \/ Await("p1")
  \/ \E k \in Checksums : Expire(k)
  \/ Return("p1")

SpecMetadata == InitMetadata /\ [][NextMetadata]_vars

\*--------------------------------------------------------------------------
\* Publishes with a missing, empty or blank service name or url
\*--------------------------------------------------------------------------
InitMissing == InitProjects({"FEDERATION", "STITCHING"}, BOOLEAN)

BlankValues == {Null, "", " "}

MissingPublishes ==
  {PublishInput(service, url, "P", FALSE, FALSE, "k1") :
     service \in BlankValues \cup {"a"}, url \in BlankValues \cup {"u1"}}
  \cup {PublishInput("b", url, "PQ", f, FALSE, "k1") : url \in {Null, "u2"}, f \in BOOLEAN}

NextMissing ==
  \/ \E input \in MissingPublishes : Publish("p1", input, AllScopes)
  \/ InternalPublish("p1")
  \/ PublishNewVersion("p1")
  \/ \E ok \in {{}, ResourceTypes} : UpdateCDN("p1", ok)
  \/ Await("p1")
  \/ Expire("k1")
  \/ Return("p1")

SpecMissing == InitMissing /\ [][NextMissing]_vars

\*--------------------------------------------------------------------------
\* SchemaValidator.validate on its own, over its arguments
\*--------------------------------------------------------------------------
ServiceSets ==
  {<<>>, <<"P">>, <<"Q">>, <<"PQ">>, <<"Qx">>, <<"P", "Q">>, <<"P", "Qx">>}

ObjectOf(sdl) == createSchemaObject(Schema(temp, "N/A", "a", "u1", sdl, Null))

Compares ==
  {NoCompare}
  \cup {Compare(ObjectOf(incoming), FALSE, NoObject) : incoming \in {"P", "Q"}}
  \cup {Compare(ObjectOf(incoming), TRUE, ObjectOf(existing)) :
          incoming \in {"P", "Q"}, existing \in {"P", "P_ws"}}

\* the arguments of one call of validate
ValidateArgs ==
  [isInitial : BOOLEAN, compare : Compares,
   schemas : [baseSchema : BaseSchemas,
              before : {Map(names, ObjectOf) : names \in ServiceSets},
              after : {Map(names, ObjectOf) : names \in ServiceSets}],
   acceptBreakingChanges : BOOLEAN, diffFails : BOOLEAN]

InitValidate ==
  /\ project \in [type : {"FEDERATION", "SINGLE"}, legacy : {FALSE}]
  /\ getStarted = {}
  /\ strict \in BOOLEAN
  /\ baseSchema = [t \in Targets |-> Null]
  /\ actions = <<>>
  /\ versions = <<>>
  /\ cdn = [t \in Targets |-> [r \in ResourceTypes |-> NoResource]]
  /\ runner = [k \in Checksums |-> NoEntry]
  /\ \E args \in ValidateArgs :
       req = [p \in Procs |-> IF p = "p1"
                              THEN [IdleReq EXCEPT !.op = "validate", !.pc = "validate",
                                                   !.input = args]
                              ELSE IdleReq]
  /\ requests = 0

\* the ValidationResult as the request keeps it
validated(validationResult) ==
  [Thrown(Null) EXCEPT !.kind = "result",
                       !.isComposable = validationResult.isComposable,
                       !.changes = validationResult.changes,
                       !.errors = validationResult.errors,
                       !.validation = Validated(validationResult)]

\* one call of SchemaValidator.validate
Validate(p) ==
  /\ req[p].pc = "validate"
  /\ req' = [req EXCEPT
               ![p].pc = "done",
               ![p].result =
                 validated(validateInspected(project.type, strict, req[p].input.isInitial,
                                             req[p].input.compare, req[p].input.schemas,
                                             req[p].input.acceptBreakingChanges,
                                             req[p].input.diffFails))]
  /\ UNCHANGED <<project, getStarted, strict, baseSchema, actions, versions, cdn, runner, requests>>

NextValidate == Validate("p1")

SpecValidate == InitValidate /\ [][NextValidate]_vars

\*--------------------------------------------------------------------------
\* Publishes and service renames by one caller
\*--------------------------------------------------------------------------
InitRename == InitProjects({"FEDERATION", "STITCHING", "SINGLE"}, BOOLEAN)

RenameInput(version, name, newName) ==
  [target |-> "t1", service |-> name, newName |-> newName, url |-> Null, sdl |-> Null,
   force |-> FALSE, accept |-> FALSE, metadata |-> Null, checksum |-> Null,
   version |-> version, valid |-> FALSE]

RenamePublishes ==
  {PublishInput("a", "u1", "P", FALSE, FALSE, "k1"),
   PublishInput("b", "u1", "PQ", FALSE, FALSE, "k1")}

NextRename ==
  \/ \E input \in RenamePublishes : Publish("p1", input, AllScopes)
  \/ InternalPublish("p1")
  \/ PublishNewVersion("p1")
  \/ UpdateCDN("p1", ResourceTypes)
  \/ Await("p1")
  \/ Expire("k1")
  \/ \E version \in 1..MaxRequests, name \in {"a", "b", "c"},
        newName \in {"a", "b", "c", " "}, scopes \in {AllScopes, ReadOnly} :
       UpdateServiceName("p1", RenameInput(version, name, newName), scopes)
  \/ Return("p1")

SpecRename == InitRename /\ [][NextRename]_vars

\*--------------------------------------------------------------------------
\* The registry proof of concept: publish over commits, versions and
\* version_commit edges (a version's edges are its `live` set)
\*--------------------------------------------------------------------------
\* a publish whose DELETE commit is left out of the version's edges
pocPublishDroppingDeleted(input) ==
  insertVersion(input.target,
                IF input.action # Null THEN input.action
                ELSE IF priorHas(input.target, input.serviceName) THEN "MODIFY" ELSE "ADD",
                [sdl |-> input.sdl, serviceName |-> input.serviceName,
                 serviceUrl |-> input.serviceUrl, metadata |-> Null,
                 commit |-> input.commit, base_schema |-> Null],
                input.composable,
                [add |-> input.action = Null,
                 kept |-> priorWithout(input.target, input.serviceName)])

\* publish of the proof of concept, one transaction
pocPublish(input) ==
  insertVersion(input.target,
                IF input.action # Null THEN input.action
                ELSE IF priorHas(input.target, input.serviceName) THEN "MODIFY" ELSE "ADD",
                [sdl |-> input.sdl, serviceName |-> input.serviceName,
                 serviceUrl |-> input.serviceUrl, metadata |-> Null,
                 commit |-> input.commit, base_schema |-> Null],
                input.composable,
                [add |-> TRUE, kept |-> priorWithout(input.target, input.serviceName)])

PocInputs ==
  [target : Targets, serviceName : {"a", "b"}, serviceUrl : {"u1"}, sdl : {"P"},
   commit : {"commit"}, action : {Null}, composable : BOOLEAN]
  \cup [target : Targets, serviceName : {"a", "b"}, serviceUrl : {"u1"}, sdl : {Null},
        commit : {"commit"}, action : {"DELETE"}, composable : BOOLEAN]

InitPoc == InitProjects({"FEDERATION"}, {FALSE})

PocPublish(input) ==
  /\ requests < MaxRequests
  /\ requests' = requests + 1
  /\ actions' = pocPublish(input).actions
  /\ versions' = pocPublish(input).versions
  /\ UNCHANGED <<project, getStarted, strict, baseSchema, cdn, runner, req>>

NextPoc == \E input \in PocInputs : PocPublish(input)

SpecPoc == InitPoc /\ [][NextPoc]_vars

\*--------------------------------------------------------------------------
\* The migration as a step: the store holds the commits and versions of the
\* previous registry until it has run
\*--------------------------------------------------------------------------
MaxCommits == 3

\* the commits of a project before the migration, oldest first
LegacyCommits(types) ==
  LET rows == [service : IF types \subseteq {"FEDERATION", "STITCHING"}
                         THEN {"a", "b"} ELSE {Null},
               url : {Null}, content : {"P"}, target : Targets, valid : BOOLEAN]
  IN  UNION {[1..n -> rows] : n \in 0..MaxCommits}

\* projects.legacy_registry_model does not exist before the migration
InitMigration ==
  /\ \E type \in ProjectTypes :
       /\ project = [type |-> type]
       /\ \E commits \in LegacyCommits({type}) :
            /\ actions = commits
            /\ versions = legacyVersions(commits, commitEdges(commits))
  /\ getStarted = {}
  /\ strict = FALSE
  /\ baseSchema = [t \in Targets |-> Null]
  /\ cdn = [t \in Targets |-> [r \in ResourceTypes |-> NoResource]]
  /\ runner = [k \in Checksums |-> NoEntry]
  /\ req = [p \in Procs |-> IdleReq]
  /\ requests = 0

\* the migration runs once
Migrate ==
  /\ "legacy" \notin DOMAIN project
  /\ project' = [type |-> project.type, legacy |-> FALSE]
  /\ actions' = migrateStore(actions, versions).actions
  /\ versions' = migrateStore(actions, versions).versions
  /\ UNCHANGED <<getStarted, strict, baseSchema, cdn, runner, req, requests>>

NextMigration == Migrate

SpecMigration == InitMigration /\ [][NextMigration]_vars

\*--------------------------------------------------------------------------
\* Publishes that change only the url of a service, and forced deletes
\*--------------------------------------------------------------------------
InitUrl == InitProjects({"FEDERATION", "STITCHING"}, BOOLEAN)

UrlPublishes ==
  {PublishInput("a", "u1", "P", FALSE, FALSE, "k1")}
  \cup {PublishInput("b", url, "Qx", f, FALSE, "k1") : url \in {"u1", "u2"}, f \in BOOLEAN}

NextUrl ==
  \/ \E input \in UrlPublishes : Publish("p1", input, AllScopes)
  \/ InternalPublish("p1")
  \/ PublishNewVersion("p1")
  \/ UpdateCDN("p1", ResourceTypes)
  \/ Await("p1")
  \/ Expire("k1")
  \/ Delete("p1", DeleteInput("a", TRUE), AllScopes)
  \/ DeleteSchema("p1")
  \/ Return("p1")

SpecUrl == InitUrl /\ [][NextUrl]_vars

\*--------------------------------------------------------------------------
\* Two callers publishing to two targets, with equal and different checksums
\*--------------------------------------------------------------------------
InitTargets == InitProjects({"FEDERATION"}, BOOLEAN)

TargetPublishes ==
  {[PublishInput("a", "u1", "P", FALSE, FALSE, k) EXCEPT !.target = t] :
     k \in Checksums, t \in Targets}

NextTargets ==
  \/ \E p \in Procs, input \in TargetPublishes : Publish(p, input, AllScopes)
  \/ \E p \in Procs : InternalPublish(p)
  \/ \E p \in Procs : PublishNewVersion(p)
  \/ \E p \in Procs : UpdateCDN(p, ResourceTypes)
  \/ \E p \in Procs : Await(p)
  \/ \E k \in Checksums : Expire(k)
  \/ \E p \in Procs : Return(p)

SpecTargets == InitTargets /\ [][NextTargets]_vars

\*--------------------------------------------------------------------------
\* Two callers publishing different services with different checksums
\*--------------------------------------------------------------------------
InitRace == InitProjects({"FEDERATION"}, BOOLEAN)

RacePublishes ==
  {PublishInput("a", "u1", "P", FALSE, FALSE, "k1"),
   PublishInput("a", "u1", "Q", FALSE, TRUE, "k1"),
   PublishInput("b", "u1", "Q", FALSE, FALSE, "k2"),
   PublishInput("b", "u1", "Qx", FALSE, FALSE, "k2")}

NextRace ==
  \/ \E p \in Procs, input \in RacePublishes : Publish(p, input, AllScopes)
  \/ \E p \in Procs : InternalPublish(p)
  \/ \E p \in Procs : PublishNewVersion(p)
  \/ \E p \in Procs : UpdateCDN(p, ResourceTypes)
  \/ \E p \in Procs : Await(p)
  \/ \E k \in Checksums : Expire(k)
  \/ \E p \in Procs : Return(p)

SpecRace == InitRace /\ [][NextRace]_vars

\*--------------------------------------------------------------------------
\* SchemaManager operations of a second caller next to the publishes of a
\* caller that holds every scope
\*--------------------------------------------------------------------------
InitScopes == InitProjects({"FEDERATION"}, BOOLEAN)

ScopesPublishes ==
  {PublishInput("a", "u1", "P", FALSE, FALSE, "k1"),
   PublishInput("b", "u1", "PQ", FALSE, FALSE, "k1")}

ScopeSets == {ReadOnly, AllScopes}

NewVersionInput ==
  [isComposable |-> TRUE, target |-> "t1", commit |-> "commit", service |-> "c",
   schema |-> "Q", url |-> "u1", base_schema |-> Null, metadata |-> Null]

NextScopes ==
  \/ \E input \in ScopesPublishes : Publish("p1", input, AllScopes)
  \/ InternalPublish("p1")
  \/ PublishNewVersion("p1")
  \/ UpdateCDN("p1", ResourceTypes)
  \/ Await("p1")
  \/ Expire("k1")
  \/ \E scopes \in ScopeSets : CreateVersion("p2", NewVersionInput, scopes)
  \/ \E scopes \in ScopeSets :
       ManagerDeleteSchema("p2", [isComposable |-> TRUE, serviceName |-> "a",
                                  baseSchema |-> Null, target |-> "t1"], scopes)
  \/ \E scopes \in ScopeSets, version \in 1..MaxRequests :
       UpdateSchemaVersionStatus("p2", StatusInput(version, FALSE), scopes)
  \/ \E scopes \in ScopeSets, version \in 1..MaxRequests :
       UpdateSchemaUrl("p2", [target |-> "t1", version |-> version, commit |-> version,
                              url |-> "u2"], scopes)
  \/ \E scopes \in ScopeSets, version \in 1..MaxRequests :
       UpdateServiceName("p2", RenameInput(version, "a", "c"), scopes)
  \/ UpdateBaseSchema("t1", "B", ReadOnly)
  \/ \E p \in Procs : Return(p)

SpecScopes == InitScopes /\ [][NextScopes]_vars

\*--------------------------------------------------------------------------
\* Properties
\*--------------------------------------------------------------------------
\* p and q are completed publish calls with one checksum that were in flight
\* together
ConcurrentPublishes(p, q) ==
  /\ p # q
  /\ req[p].op = "publish" /\ req[p].pc = "done"
  /\ req[q].op = "publish" /\ req[q].pc = "done"
  /\ req[p].input.checksum = req[q].input.checksum
  /\ q \in req[p].overlap

Writers(p, q) == {r \in {p, q} : req[r].wrote # 0}

\* C1 as stated: two concurrent publish calls with the same checksum write
\* exactly one action and one version and receive the same response
C1_AsStated ==
  \A p, q \in Procs :
    ConcurrentPublishes(p, q) =>
      /\ req[p].resp = req[q].resp
      /\ Cardinality(Writers(p, q)) = 1

\* C1: two concurrent publish calls with the same checksum run the publish
\* logic at most once: at most one action and one version are written
\* (exactly one when the conclusion is Publish, none otherwise) and both
\* callers receive the same response
C1_ConcurrentPublishesRunOnce ==
  \A p, q \in Procs :
    ConcurrentPublishes(p, q) =>
      /\ req[p].resp = req[q].resp
      /\ ~(req[p].executed /\ req[q].executed)
      /\ Cardinality(Writers(p, q)) <= 1
      /\ \A r \in {p, q} :
           req[r].executed =>
             (req[r].wrote # 0 <=> /\ req[r].result.kind = "result"
                                   /\ req[r].result.conclusion = Conclusion.Publish)

\* two concurrent publishes with one checksum have completed, one version written
C1_Witness ==
  \E p, q \in Procs :
    /\ ConcurrentPublishes(p, q)
    /\ Cardinality(Writers(p, q)) = 1
    /\ req[p].resp.typename = "SchemaPublishSuccess"

\* the version that was the target's latest before version i (0: none)
previousVersion(i) ==
  LET older == {j \in VersionsOf(versions[i].target) : j < i}
  IN  IF older = {} THEN 0 ELSE Max(older)

\* the live actions of version i that belong to a service
liveNamed(i, name) == {a \in liveOf(i) : actions[a].service_name = name}

ServiceNames == {actions[a].service_name : a \in DOMAIN actions}

\* p is a completed delete that wrote a version
Deleted(p) == req[p].op = "delete" /\ req[p].pc = "done" /\ req[p].wrote # 0

\* C3: after a successful delete of service S on a composite modern-model
\* target, the live set of the version it wrote (the target's latest) contains
\* no action of S, the DELETE action included, and every other service keeps
\* the live action it had in the previous version
C3_DeleteRemovesOnlyTheService ==
  \A p \in Procs :
    Deleted(p) =>
      LET v == req[p].wrote
          S == req[p].input.service
      IN  /\ isCompositeSchemaProject /\ ~project.legacy
          /\ actions[versions[v].actionId].action = "DELETE"
          /\ actions[versions[v].actionId].service_name = S
          /\ liveNamed(v, S) = {}
          /\ versions[v].actionId \notin liveOf(v)
          /\ \A n \in ServiceNames \ {S} : liveNamed(v, n) = liveNamed(previousVersion(v), n)

\* a delete of one of two live services has completed
C3_Witness ==
  \E p \in Procs :
    /\ Deleted(p)
    /\ req[p].wrote = getMaybeLatestVersion(req[p].input.target)
    /\ liveNamed(previousVersion(req[p].wrote), req[p].input.service) # {}
    /\ liveOf(req[p].wrote) # {}

\* C4 as stated: after a successful composite delete, the latest composable
\* version has one schema fewer than were live before the delete
C4_AsStated ==
  \A p \in Procs :
    (Deleted(p) /\ req[p].wrote = getMaybeLatestVersion(req[p].input.target)) =>
      LET latestComposable == getMaybeLatestComposableVersion(req[p].input.target)
      IN  /\ latestComposable # 0
          /\ Len(getSchemasOfVersion(latestComposable))
               = Cardinality(liveOf(previousVersion(req[p].wrote))) - 1

\* C4: after a successful composite delete whose remaining services compose,
\* the version it wrote is the latest composable version and has one schema
\* fewer than were live before the delete; after a forced delete whose
\* remaining services do not compose, the latest composable version is the one
\* it was before the delete
C4_DeleteShrinksLatestComposable ==
  \A p \in Procs :
    (Deleted(p) /\ req[p].wrote = getMaybeLatestVersion(req[p].input.target)) =>
      LET v == req[p].wrote
          target == req[p].input.target
          latestComposable == getMaybeLatestComposableVersion(target)
          before == {i \in VersionsOf(target) : i < v /\ versions[i].isComposable}
      IN  IF req[p].result.isComposable
          THEN /\ latestComposable = v
               /\ Len(getSchemasOfVersion(latestComposable))
                    = Cardinality(liveOf(previousVersion(v))) - 1
          ELSE /\ req[p].input.force
               /\ latestComposable = (IF before = {} THEN 0 ELSE Max(before))

\* a delete that left a composable set has completed
C4_Witness ==
  \E p \in Procs :
    /\ Deleted(p)
    /\ req[p].result.isComposable
    /\ getMaybeLatestComposableVersion(req[p].input.target) = req[p].wrote
    /\ Cardinality(liveOf(req[p].wrote)) = 1

\* C10: delete on a project using the legacy registry model, by a caller that
\* passes authorization, fails with a 'not available' error, even with
\* force=true and an existing service; no delete on such a project writes an
\* action or a version
C10_LegacyDeleteNotAvailable ==
  \A p \in Procs :
    (req[p].op = "delete" /\ project.legacy) =>
      /\ req[p].pc \in {"idle", "done"}
      /\ req[p].wrote = 0
      /\ ~req[p].executed
      /\ (req[p].pc = "done" /\ AllScopes \subseteq req[p].scopes) =>
           /\ req[p].resp.typename = "HiveError"
           /\ req[p].resp.message
                = "Deleting schemas is not available for the legacy registry model"

\* a forced delete of a live service on a legacy project has failed
C10_Witness ==
  \E p \in Procs :
    /\ req[p].op = "delete" /\ req[p].pc = "done" /\ project.legacy
    /\ req[p].input.force
    /\ AllScopes \subseteq req[p].scopes
    /\ serviceExists(getLatestSchemas(req[p].input.target).schemas, req[p].input.service)
    /\ req[p].resp.typename = "HiveError"

\* p is a completed publish that ran internalPublish past authorization
Published(p) == req[p].op = "publish" /\ req[p].pc = "done" /\ req[p].executed

\* p is a completed publish that wrote a version of a composite project
PublishedService(p) == Published(p) /\ req[p].wrote # 0 /\ isCompositeSchemaProject

\* the new version has exactly one live action of service S, its own, and
\* every other service keeps the live action of the previous version
SwappedIn(v, S) ==
  /\ liveNamed(v, S) = {versions[v].actionId}
  /\ \A n \in ServiceNames \ {S} : liveNamed(v, n) = liveNamed(previousVersion(v), n)

\* C2 as stated: after a successful publish of service S to a composite
\* target the latest live set has exactly one action named S, the new one,
\* and for every other name the action that was live before
C2_AsStated ==
  \A p \in Procs : PublishedService(p) => SwappedIn(req[p].wrote, req[p].input.service)

\* C2: after a successful publish of service S to a composite target the live
\* set of the version it wrote contains exactly one action whose serviceName
\* is S (the lower-cased S under the legacy registry model), namely the newly
\* written action, and for every other service name exactly the action that
\* was live in the previous latest version
C2_PublishSwapsService ==
  \A p \in Procs :
    PublishedService(p) =>
      SwappedIn(req[p].wrote,
                IF project.legacy THEN toLowerCase(req[p].input.service)
                ELSE req[p].input.service)

\* a publish has replaced the live action of a service next to another service
C2_Witness ==
  \E p \in Procs :
    /\ PublishedService(p)
    /\ req[p].wrote = getMaybeLatestVersion(req[p].input.target)
    /\ liveNamed(previousVersion(req[p].wrote), req[p].input.service) # {}
    /\ Cardinality(liveOf(req[p].wrote)) = 2
    /\ Cardinality(liveOf(previousVersion(req[p].wrote))) = 2

\* the validation result of p is not valid
Invalid(p) ==
  /\ req[p].result.validation.ran
  /\ \/ ~req[p].result.validation.isComposable
     \/ req[p].result.validation.hasBreakingChanges

LegacyFederation == project.type = "FEDERATION" /\ project.legacy

\* C5: for a FEDERATION project using the legacy registry model, a publish
\* whose validation result has isComposable=false or hasBreakingChanges=true
\* is rejected and writes no version unless force=true, in which case it is
\* published
C5_LegacyRejectsUnlessForced ==
  \A p \in Procs :
    (Published(p) /\ LegacyFederation /\ Invalid(p)) =>
      IF req[p].input.force
      THEN /\ req[p].result.conclusion = Conclusion.Publish
           /\ req[p].wrote # 0
           /\ req[p].resp.typename = "SchemaPublishSuccess"
      ELSE /\ req[p].result.conclusion = Conclusion.Reject
           /\ req[p].wrote = 0
           /\ req[p].resp.typename = "SchemaPublishError"

\* a forced publish with breaking changes has been published
C5_Witness ==
  \E p \in Procs :
    /\ Published(p) /\ LegacyFederation /\ Invalid(p)
    /\ req[p].result.validation.hasBreakingChanges
    /\ req[p].input.force
    /\ req[p].wrote # 0

\* the service set a publish proposes, with the base schema
proposedServices(input) ==
  LET current == getLatestSchemas(input.target).schemas
      incoming == Schema(temp, "N/A", input.service, input.url, input.sdl, Null)
      after == IF isCompositeSchemaProject
               THEN Filter(swapServices(current,
                                        [incoming EXCEPT !.action = "ADD"]).schemas,
                           isAddedOrModified)
               ELSE <<[incoming EXCEPT !.service_name = Null]>>
      base == IF isCompositeSchemaProject /\ ~supportsBaseSchema(project) THEN Null
              ELSE baseSchema[input.target]
  IN  prependBase(Map(after, createSchemaObject), base)

\* p is about to run the model on a modern-model project
DecidingModern(p) ==
  /\ req[p].op = "publish" /\ req[p].pc = "internalPublish"
  /\ AllScopes \subseteq req[p].scopes
  /\ ~project.legacy
  /\ publishResultNow(req[p].input).kind = "result"

\* C6 as stated: for a modern-model project a publish is rejected if and only
\* if the proposed service set is not composable, whatever the breaking
\* changes and the value of force
C6_AsStated ==
  \A p \in Procs :
    DecidingModern(p) =>
      /\ publishResultNow(req[p].input).conclusion = Conclusion.Reject
           <=> orchestratorValidate(proposedServices(req[p].input)) # {}
      /\ publishResultNow([req[p].input EXCEPT !.force = ~@]).conclusion
           = publishResultNow(req[p].input).conclusion

\* q and p are completed publishes, p issued next after q completed
Successive(q, p) ==
  /\ p # q
  /\ Published(q) /\ Published(p)
  /\ q \in req[p].prior
  /\ req[q].input.target = req[p].input.target

SameSchema(q, p) ==
  /\ req[q].input.sdl = req[p].input.sdl
  /\ req[q].input.url = req[p].input.url

\* C7 as stated: of two successive publishes to a target with the same SDL
\* and the same service URL, the second concludes Neutral and writes no version
C7_AsStated ==
  \A p, q \in Procs :
    (Successive(q, p) /\ SameSchema(q, p)) =>
      /\ req[p].result.conclusion = Conclusion.Neutral
      /\ req[p].wrote = 0

\* the first publish wrote a version under the name the second one uses
Recorded(q, p) ==
  /\ req[q].input.service = req[p].input.service
  /\ req[q].wrote # 0
  /\ actions[versions[req[q].wrote].actionId].service_name = req[p].input.service

\* C7: of two successive publishes of the same service to a target with the
\* same SDL and the same service URL and no base-schema change in between,
\* the first of which wrote a version under that service name, the second
\* concludes Neutral and writes no new version
C7_RepublishIsNeutral ==
  \A p, q \in Procs :
    (Successive(q, p) /\ SameSchema(q, p) /\ Recorded(q, p)) =>
      /\ req[p].result.kind = "result"
      /\ req[p].result.conclusion = Conclusion.Neutral
      /\ req[p].wrote = 0
      /\ ~req[p].uploaded

\* a service has been published twice in a row with the same SDL and URL
C7_Witness ==
  \E p, q \in Procs :
    /\ Successive(q, p) /\ SameSchema(q, p) /\ Recorded(q, p)
    /\ req[p].result.conclusion = Conclusion.Neutral
    /\ req[p].resp.typename = "SchemaPublishSuccess"

\* the version store as its readers see it
StoreView(acts, vers) ==
  [actions |-> acts,
   versions |-> vers,
   latest |-> [t \in Targets |->
                 LET mine == {i \in DOMAIN vers : vers[i].target = t}
                 IN  IF mine = {} THEN 0 ELSE Max(mine)],
   latestComposable |-> [t \in Targets |->
                           LET mine == {i \in DOMAIN vers : vers[i].target = t
                                                             /\ vers[i].isComposable}
                           IN  IF mine = {} THEN 0 ELSE Max(mine)]]

\* C8: a publish creates a new action and version if and only if the model's
\* conclusion is Publish: every step of a publish that concludes Reject or
\* Neutral, or returns a missing-service-name or missing-service-url error,
\* leaves the version store and the CDN unchanged, and a publish that
\* concludes Publish completes with exactly one new action and version
C8_WritesIffPublish ==
  [][\A p \in Procs :
       (req'[p].op = "publish" /\ req'[p] # req[p] /\ req'[p].executed) =>
         IF req'[p].result.kind = "result" /\ req'[p].result.conclusion = Conclusion.Publish
         THEN /\ Len(actions') \in {Len(actions), Len(actions) + 1}
              /\ Len(versions') = Len(actions')
              /\ req'[p].pc = "done" =>
                   /\ req'[p].wrote = Len(versions')
                   /\ versions'[req'[p].wrote].actionId = Len(actions')
         ELSE /\ StoreView(actions', versions') = StoreView(actions, versions)
              /\ cdn' = cdn
              /\ req'[p].wrote = 0
              /\ ~req'[p].uploaded]_vars

\* a publish has been rejected on a target that has a version
C8_Witness ==
  \E p \in Procs :
    /\ Published(p)
    /\ req[p].result.kind = "result"
    /\ req[p].result.conclusion = Conclusion.Reject
    /\ req[p].wrote = 0
    /\ getMaybeLatestVersion(req[p].input.target) # 0

WriteOperations == {"publish", "delete", "sync", "updateVersionStatus"}

\* C9 as stated: publish, delete, sync and updateVersionStatus invoked by a
\* caller that lacks REGISTRY_WRITE fail with an authorization error and
\* perform no version-store write and no CDN upload
C9_AsStated ==
  \A p \in Procs :
    (req[p].op \in WriteOperations /\ "REGISTRY_WRITE" \notin req[p].scopes) =>
      /\ req[p].wrote = 0
      /\ ~req[p].uploaded
      /\ req[p].pc = "done" => req[p].resp.typename = "AccessError"

\* p is a completed delete on a SINGLE project by a caller that passes
\* authorization
SingleDeleted(p) ==
  /\ req[p].op = "delete" /\ req[p].pc = "done"
  /\ project.type = "SINGLE"
  /\ AllScopes \subseteq req[p].scopes

\* C11 as stated: for SINGLE projects delete always fails with the error
\* "Deleting schemas is not supported for single-schema projects" and writes
\* nothing
C11_AsStated ==
  \A p \in Procs :
    SingleDeleted(p) =>
      /\ req[p].resp.message = singleDelete
      /\ req[p].wrote = 0

\* C11: for SINGLE projects delete always fails, with the error "Deleting
\* schemas is not available for SINGLE-type projects", and no delete on such
\* a project writes an action or a version
C11_SingleDeleteNotAvailable ==
  \A p \in Procs :
    (req[p].op = "delete" /\ project.type = "SINGLE") =>
      /\ req[p].pc \in {"idle", "done"}
      /\ req[p].wrote = 0
      /\ ~req[p].executed
      /\ SingleDeleted(p) =>
           /\ req[p].resp.typename = "HiveError"
           /\ req[p].resp.message
                = "Deleting schemas is not available for SINGLE-type projects"

\* a forced delete on a SINGLE project that has a version has failed
C11_Witness ==
  \E p \in Procs :
    /\ SingleDeleted(p)
    /\ req[p].input.force
    /\ getMaybeLatestVersion(req[p].input.target) # 0
    /\ req[p].resp.typename = "HiveError"

\* the active services of the target's latest version
activeServices(target) == Filter(getLatestSchemas(target).schemas, isAddedOrModified)

\* the schema objects of the services that remain when one service is deleted
remainingObjects(input) ==
  LET remains(schema) == schema.service_name # input.service
  IN  Map(Filter(activeServices(input.target), remains), createSchemaObject)

\* the remaining services compose, together with the base schema where the
\* project type has one
remainingComposes(input) ==
  orchestratorValidate(
    prependBase(remainingObjects(input),
                IF supportsBaseSchema(project) THEN baseSchema[input.target] ELSE Null)) = {}

\* orchestrator.build succeeds on the services before and after the delete
comparable(input) ==
  /\ ~buildFails(project.type, strict, Map(activeServices(input.target), createSchemaObject))
  /\ ~buildFails(project.type, strict, remainingObjects(input))

\* the delete removes an element of the built schema
deleteBreaks(input) ==
  orchestratorBuild(Map(activeServices(input.target), createSchemaObject))
    \ orchestratorBuild(remainingObjects(input)) # {}

\* the conclusion of a delete follows force and the validation of what remains
deleteDecided(input, deletion) ==
  /\ deletion.conclusion = Conclusion.Publish
       <=> input.force \/ (deletion.isComposable /\ ~deletion.hasBreakingChanges)
  /\ deletion.isComposable <=> remainingComposes(input)
  /\ comparable(input) =>
       (deletion.hasBreakingChanges <=> ~input.force /\ deleteBreaks(input))
  /\ (input.force \/ (remainingComposes(input) /\ comparable(input)
                                               /\ ~deleteBreaks(input)))
       => deletion.conclusion = Conclusion.Publish
  /\ (~input.force /\ (~remainingComposes(input) \/ (comparable(input)
                                                       /\ deleteBreaks(input))))
       => deletion.conclusion = Conclusion.Reject

\* C12: for a delete of a service that exists in the live set of a modern
\* composite target, the conclusion is Publish if and only if force=true or
\* the remaining set is composable with no breaking changes; a delete that
\* concludes Reject answers with the errors and no ok, and writes no action or
\* version
C12_DeleteConclusion ==
  /\ \A input \in ModernDeletes :
        serviceExists(activeServices(input.target), input.service)
          => deleteDecided(input, deletionNow(input))
  /\ \A p \in Procs :
        (req[p].op = "delete" /\ req[p].executed /\ req[p].result.validation.ran) =>
          IF req[p].result.conclusion = Conclusion.Reject
          THEN /\ req[p].pc = "done"
               /\ req[p].resp.typename = "errors"
               /\ req[p].resp.ok = Null
               /\ req[p].resp.errors = req[p].result.errors
               /\ req[p].resp.errors # {}
               /\ req[p].wrote = 0
          ELSE /\ req[p].pc \in {"deleteSchema", "done"}
               /\ req[p].pc = "done" =>
                    /\ req[p].wrote # 0
                    /\ req[p].resp.ok = req[p].input.service

\* a delete without force has been concluded Publish and written, and one is
\* about to be rejected
C12_Witness ==
  /\ \E p \in Procs :
        /\ Deleted(p)
        /\ ~req[p].input.force
        /\ req[p].result.conclusion = Conclusion.Publish
        /\ req[p].result.errors = {}
  /\ \E input \in ModernDeletes :
        /\ serviceExists(activeServices(input.target), input.service)
        /\ deletionNow(input).conclusion = Conclusion.Reject

\* p writes the version of a delete whose remaining services were found not
\* to compose
WritesNonComposableDelete(p) ==
  /\ req[p].op = "delete" /\ req[p].pc = "deleteSchema"
  /\ ~req[p].result.isComposable
  /\ req'[p].wrote # 0

\* C13: a forced delete whose remaining service set does not compose writes a
\* new latest version with isComposable=false that lacks the deleted service,
\* while the latest composable version stays the version that was latest
\* composable before the delete, with its live set unchanged
C13_ForcedDeleteKeepsLatestComposable ==
  [][\A p \in Procs :
       WritesNonComposableDelete(p) =>
         LET target == req[p].input.target
             v == req'[p].wrote
             composable == getMaybeLatestComposableVersion(target)
         IN  /\ req[p].input.force
             /\ v = getMaybeLatestVersion(target)'
             /\ v > getMaybeLatestVersion(target)
             /\ ~versions'[v].isComposable
             /\ \A a \in versions'[v].live :
                  actions'[a].service_name # req[p].input.service
             /\ versions'[v].live
                  = {a \in liveOf(getMaybeLatestVersion(target)) :
                       actions[a].service_name # req[p].input.service}
             /\ getMaybeLatestComposableVersion(target)' = composable
             /\ composable # 0 =>
                  /\ versions'[composable] = versions[composable]
                  /\ getSchemasOfVersion(composable)' = getSchemasOfVersion(composable)]_vars

\* a forced delete has left one service that does not compose; the latest
\* composable version still has both services
C13_Witness ==
  \E p \in Procs :
    /\ Deleted(p)
    /\ req[p].input.force
    /\ ~versions[req[p].wrote].isComposable
    /\ req[p].wrote = getMaybeLatestVersion(req[p].input.target)
    /\ Cardinality(liveOf(req[p].wrote)) = 1
    /\ getMaybeLatestComposableVersion(req[p].input.target) = previousVersion(req[p].wrote)
    /\ Cardinality(liveOf(previousVersion(req[p].wrote))) = 2

\* the action of version v is the one written with it: no older version has
\* it as its action or in its live set
NewlyRecorded(v) ==
  \A j \in DOMAIN versions :
    j < v => versions[j].actionId # versions[v].actionId /\ versions[v].actionId \notin liveOf(j)

\* version v records MODIFY when the live set it replaced held service S, ADD otherwise
RecordedKind(v, S) ==
  actions[versions[v].actionId].action =
    IF liveNamed(previousVersion(v), S) # {} THEN "MODIFY" ELSE "ADD"

\* C14 as stated: the action recorded by a composite publish of service S is
\* MODIFY if the live set of the target's latest version contains a service
\* named S and ADD otherwise, and the new version's actionId refers to that
\* newly recorded action
C14_AsStated ==
  \A p \in Procs :
    PublishedService(p) =>
      RecordedKind(req[p].wrote, req[p].input.service) /\ NewlyRecorded(req[p].wrote)

\* C14: the action recorded by a composite publish of service S is MODIFY if
\* the live set of the target's latest version contains a service named S
\* (the lower-cased S under the legacy registry model) and ADD otherwise, and
\* the new version's actionId refers to that newly recorded action
C14_PublishRecordsAddOrModify ==
  \A p \in Procs :
    PublishedService(p) =>
      /\ RecordedKind(req[p].wrote,
                      IF project.legacy THEN toLowerCase(req[p].input.service)
                      ELSE req[p].input.service)
      /\ NewlyRecorded(req[p].wrote)

\* a publish has recorded a MODIFY of a service that was live next to another
C14_Witness ==
  \E p \in Procs :
    /\ PublishedService(p)
    /\ actions[versions[req[p].wrote].actionId].action = "MODIFY"
    /\ liveNamed(previousVersion(req[p].wrote), actions[versions[req[p].wrote].actionId].service_name) # {}
    /\ actions[versions[previousVersion(req[p].wrote)].actionId].action = "ADD"


\* the live set a write gives version v: its own action for a single-schema
\* project; for a composite project the previous live set without the actions
\* of the written service, plus the written action unless it is a DELETE
CompleteLiveSet(v) ==
  LET a == versions[v].actionId
      kept == {b \in liveOf(previousVersion(v)) : actions[b].service_name # actions[a].service_name}
  IN  IF ~isCompositeSchemaProject THEN {a}
      ELSE IF actions[a].action = "DELETE" THEN kept
      ELSE kept \cup {a}

\* C15: in every reachable state, after storage failures and with two
\* callers writing at once, every stored version has its triggering action
\* stored and its complete set of live-set edges, and no action is stored
\* without the version it created
C15_VersionWritesAreAtomic ==
  /\ \A v \in DOMAIN versions :
       /\ versions[v].actionId \in DOMAIN actions
       /\ actions[versions[v].actionId].target = versions[v].target
       /\ versions[v].live \subseteq DOMAIN actions
       /\ versions[v].live = CompleteLiveSet(v)
  /\ \A a \in DOMAIN actions :
       Cardinality({v \in DOMAIN versions : versions[v].actionId = a}) = 1

\* a write has failed in storage while the other caller's write was stored
C15_Witness ==
  \E p, q \in Procs :
    /\ p # q
    /\ req[p].pc = "done" /\ req[p].resp = StorageError
    /\ req[q].pc = "done" /\ req[q].wrote = getMaybeLatestVersion(req[q].input.target)
    /\ p \notin req[q].prior /\ q \notin req[p].prior
    /\ Cardinality(liveOf(req[q].wrote)) = 2


\* p is a completed publish that wrote a version and whose CDN upload failed:
\* it had resources to upload and none was stored
UploadFailed(p) ==
  /\ Published(p) /\ req[p].wrote # 0
  /\ req[p].result.cdn.present
  /\ updateCDN(req[p].input.target, req[p].result.cdn, {}).failed
  /\ ~req[p].uploaded

\* C16: if the CDN upload fails after createVersion succeeded, the publish
\* still returns its success response, the new version remains stored and
\* remains the target's latest version, and no error reaches the caller or
\* the callers that await the same execution
C16_UploadFailureKeepsPublish ==
  \A p \in Procs :
    UploadFailed(p) =>
      /\ req[p].resp = publishResponse(req[p].result)
      /\ req[p].resp.typename = "SchemaPublishSuccess"
      /\ req[p].wrote \in DOMAIN versions
      /\ versions[req[p].wrote].actionId \in DOMAIN actions
      /\ req[p].wrote = getMaybeLatestVersion(req[p].input.target)
      /\ runner[req[p].input.checksum].status = "done" =>
           runner[req[p].input.checksum].result = req[p].resp

\* a publish over an earlier version has completed after its upload failed
C16_Witness ==
  \E p \in Procs :
    /\ UploadFailed(p)
    /\ previousVersion(req[p].wrote) # 0
    /\ req[p].resp.typename = "SchemaPublishSuccess"


\* p answers a check in this step
Checked(p) == req[p].pc = "idle" /\ req'[p].op = "check" /\ req'[p].pc = "done"

\* C17 as stated: after check returns or fails the persistent state (actions,
\* versions, live sets, project and organization records) and the CDN are
\* the same as before the call
C17_AsStated ==
  [][\A p \in Procs :
       Checked(p) =>
         /\ actions' = actions /\ versions' = versions
         /\ project' = project /\ getStarted' = getStarted
         /\ baseSchema' = baseSchema /\ cdn' = cdn /\ runner' = runner]_vars


ActionsOfKind(kinds) == {a \in DOMAIN actions : actions[a].action \in kinds}

\* C18: after any sequence of publish and delete operations every stored
\* action of kind DELETE has sdl = null and every stored action of kind ADD
\* or MODIFY has a non-null sdl
C18_ActionSdlByKind ==
  /\ \A a \in ActionsOfKind({"DELETE"}) : actions[a].sdl = Null
  /\ \A a \in ActionsOfKind({"ADD", "MODIFY"}) : actions[a].sdl # Null

\* an ADD, a MODIFY and a DELETE action are stored
C18_Witness ==
  /\ ActionsOfKind({"DELETE"}) # {}
  /\ ActionsOfKind({"ADD"}) # {}
  /\ ActionsOfKind({"MODIFY"}) # {}


\* C19: a stored action has kind N/A if and only if its project is of type
\* SINGLE or CUSTOM; every action of a FEDERATION or STITCHING project has
\* kind ADD, MODIFY or DELETE
C19_KindByProjectType ==
  \A a \in DOMAIN actions :
    /\ actions[a].action = "N/A" <=> project.type \in {"SINGLE", "CUSTOM"}
    /\ project.type \in {"FEDERATION", "STITCHING"} =>
         actions[a].action \in {"ADD", "MODIFY", "DELETE"}

\* a publish has written an action next to a migrated one, and the store
\* holds an N/A action or a DELETE action
C19_Witness ==
  \E p \in Procs :
    /\ Published(p) /\ req[p].wrote > 1
    /\ versions[1].actionId = 1 /\ versions[req[p].wrote].actionId = req[p].wrote
    /\ ActionsOfKind({"N/A", "DELETE"}) # {}


\* p issues a publish in this step
IssuesPublish(p) == req[p].pc = "idle" /\ req'[p].op = "publish" /\ req'[p].pc # "idle"

\* p, executing a publish, completes in this step
CompletesPublish(p) ==
  /\ req[p].op = "publish"
  /\ req[p].pc \in {"internalPublish", "publishNewVersion", "updateCDN"}
  /\ req'[p].pc = "done"

\* C20: a publish whose checksum is that of a publish completed less than
\* the ttl earlier (its entry is stored) does not run the publish logic and
\* returns the stored outcome of that call, a result or an error alike; every
\* completed execution stores its outcome; a publish issued after the entry
\* has expired executes again
C20_TtlServesStoredOutcome ==
  [][\A p \in Procs :
       /\ CompletesPublish(p) =>
            /\ runner'[req[p].input.checksum].status = "done"
            /\ runner'[req[p].input.checksum].result = req'[p].resp
       /\ (IssuesPublish(p) /\ runner[req'[p].input.checksum].status = "done") =>
            /\ req'[p].pc = "await"
            /\ runner' = runner
            /\ actions' = actions /\ versions' = versions /\ cdn' = cdn
       /\ req[p].pc = "await" =>
            /\ req'[p].pc \in {"await", "done"}
            /\ req'[p].pc = "done" =>
                 /\ req'[p].resp = runner[req[p].input.checksum].result
                 /\ ~req'[p].executed /\ req'[p].wrote = 0
                 /\ actions' = actions /\ versions' = versions /\ cdn' = cdn
       /\ (IssuesPublish(p) /\ runner[req'[p].input.checksum].status = "none") =>
            /\ req'[p].pc = "internalPublish"
            /\ runner'[req'[p].input.checksum].status = "running"
            /\ runner'[req'[p].input.checksum].owner = p]_vars

\* p was answered with a stored error after the call that failed had
\* completed, and q, issued with the same checksum after the entry expired,
\* has executed again
C20_Witness ==
  \E p, q \in Procs :
    /\ p # q
    /\ req[p].op = "publish" /\ req[p].pc = "done"
    /\ ~req[p].executed /\ req[p].overlap = {}
    /\ req[p].resp.typename = "Error"
    /\ req[q].op = "publish" /\ req[q].pc = "done" /\ req[q].executed
    /\ req[q].input.checksum = req[p].input.checksum
    /\ p \in req[q].prior


\* p and q are completed publishes to one target with different checksums
\* that each wrote a version
BothPublished(p, q) ==
  /\ p # q
  /\ Published(p) /\ req[p].wrote # 0
  /\ Published(q) /\ req[q].wrote # 0
  /\ req[p].input.target = req[q].input.target
  /\ req[p].input.checksum # req[q].input.checksum

\* neither request had completed when the other was issued
Interleaved(p, q) == p \notin req[q].prior /\ q \notin req[p].prior

\* C21: two publishes to the same target with different checksums are not
\* serialized: when both conclude Publish each writes its own version, and
\* the target's latest version is the one whose write committed later
C21_DifferentChecksumsRace ==
  \A p, q \in Procs :
    BothPublished(p, q) =>
      /\ req[p].wrote # req[q].wrote
      /\ versions[req[p].wrote].actionId # versions[req[q].wrote].actionId
      /\ req[p].result.conclusion = Conclusion.Publish
      /\ req[q].result.conclusion = Conclusion.Publish
      /\ getMaybeLatestVersion(req[p].input.target) = Max({req[p].wrote, req[q].wrote})

\* two interleaved publishes with different checksums, both decided on the
\* empty target, have each written a version, and the later write is latest
C21_Witness ==
  \E p, q \in Procs :
    /\ BothPublished(p, q)
    /\ Interleaved(p, q)
    /\ req[p].wrote > req[q].wrote
    /\ getMaybeLatestVersion(req[p].input.target) = req[p].wrote
    /\ req[p].result.isInitial /\ req[q].result.isInitial


\* p, publishing to a target without a version, writes in this step
WritesFirstVersion(p) ==
  /\ req[p].op = "publish" /\ req[p].pc = "publishNewVersion"
  /\ VersionsOf(req[p].input.target) = {}
  /\ req'[p].wrote # 0

\* p, publishing to a target without a version, completes without a write
EndsWithoutVersion(p) ==
  /\ req[p].op = "publish" /\ req[p].pc = "internalPublish"
  /\ VersionsOf(req[p].input.target) = {}
  /\ req'[p].pc = "done"

\* a rejected or failed publish leaves the target without a version
StaysNoLatest(p) ==
  EndsWithoutVersion(p) =>
    /\ req'[p].resp.typename # "SchemaPublishSuccess"
    /\ VersionsOf(req[p].input.target)' = {}

\* C22 as stated: for a target with no prior version a successful publish
\* makes the new latest version composable, and a rejected publish leaves
\* the target without a version
C22_AsStated ==
  [][\A p \in Procs :
       /\ WritesFirstVersion(p) =>
            /\ getMaybeLatestVersion(req[p].input.target)' = req'[p].wrote
            /\ versions'[req'[p].wrote].isComposable
       /\ StaysNoLatest(p)]_vars

\* C22: for a target with no prior version a successful publish writes the
\* target's latest version, which is composable unless the publish is a
\* forced publish under the legacy registry model of a schema that does not
\* compose (then it is not composable), and a rejected publish leaves the
\* target without a version
C22_FirstPublish ==
  [][\A p \in Procs :
       /\ WritesFirstVersion(p) =>
            /\ getMaybeLatestVersion(req[p].input.target)' = req'[p].wrote
            /\ versions'[req'[p].wrote].isComposable
                 <=> ~(/\ project.legacy /\ req[p].input.force
                       /\ ~req[p].result.validation.isComposable)
       /\ StaysNoLatest(p)]_vars

\* the first publish to a target wrote a composable version and uploaded it
C22_Witness ==
  \E p \in Procs :
    /\ Published(p) /\ req[p].result.kind = "result"
    /\ req[p].wrote # 0 /\ previousVersion(req[p].wrote) = 0
    /\ versions[req[p].wrote].isComposable
    /\ getMaybeLatestComposableVersion(req[p].input.target) = req[p].wrote
    /\ req[p].uploaded


\* p, authorized on a legacy project, sets the status of a version in this step
SetsVersionStatus(p) ==
  /\ req[p].pc = "idle"
  /\ req'[p].op = "updateVersionStatus"
  /\ req'[p].executed
  /\ AllScopes \subseteq req'[p].scopes

\* the step leads to updateCDN with the schemas of the version whose status was set
TriggersUpload(p) ==
  /\ req'[p].pc = "updateCDN"
  /\ req'[p].result.cdn.present

\* C23 as stated: updateVersionStatus on a legacy project re-publishes to
\* the CDN if and only if the flipped version is the target's current latest
\* version and its new status is composable
C23_AsStated ==
  [][\A p \in Procs :
       SetsVersionStatus(p) =>
         /\ project.legacy
         /\ TriggersUpload(p) <=>
              /\ req'[p].input.valid
              /\ req'[p].input.version = getMaybeLatestVersion(req'[p].input.target)]_vars

\* C23: updateVersionStatus on a legacy project re-publishes a version to
\* the CDN if and only if its new status is composable and the flipped
\* version is then the target's latest composable version; flipping to
\* non-composable, or flipping a version older than the latest composable
\* one, triggers no CDN upload and leaves the CDN as it is
C23_StatusUpdateUploads ==
  [][\A p \in Procs :
       SetsVersionStatus(p) =>
         /\ project.legacy
         /\ versions'[req'[p].input.version].isComposable = req'[p].input.valid
         /\ TriggersUpload(p) <=>
              /\ req'[p].input.valid
              /\ \E t \in Targets :
                   /\ t = req'[p].input.target
                   /\ req'[p].input.version = getMaybeLatestComposableVersion(t)'
         /\ ~TriggersUpload(p) => req'[p].pc = "done" /\ ~req'[p].uploaded
         /\ cdn' = cdn]_vars

\* a version flipped to composable has been uploaded, and a flip of an
\* older version has not
C23_Witness ==
  \E p \in Procs :
    /\ req[p].op = "updateVersionStatus" /\ req[p].pc = "done"
    /\ req[p].executed /\ req[p].input.valid /\ req[p].uploaded
    /\ req[p].input.version = getMaybeLatestComposableVersion(req[p].input.target)
    /\ Cardinality(VersionsOf(req[p].input.target)) > 1


\* the services the target's CDN schema resource holds, as <<name, sdl>>
cdnServices(target) ==
  {<<cdn[target].schema.items[i].name, cdn[target].schema.items[i].sdl>> :
     i \in DOMAIN cdn[target].schema.items}

\* the services of a version that have a document, as <<name, sdl>>
versionServices(v) ==
  {<<IF isCompositeSchemaProject THEN actions[a].service_name ELSE Null, actions[a].sdl>> :
     a \in {b \in liveOf(v) : actions[b].sdl # Null}}

\* p's sync reads the latest composable version in this step
SyncReads(p) == req[p].pc = "idle" /\ req'[p].op = "sync" /\ req'[p].pc = "updateCDN"

\* p's sync completes without error in this step
SyncCompletes(p) ==
  /\ req[p].op = "sync" /\ req[p].pc = "updateCDN"
  /\ req'[p].pc = "done" /\ req'[p].resp.typename = "ok"

\* C24 as stated: after a sync that completes without error the CDN schema
\* resource of the target equals the schemas of the target's latest
\* composable version
C24_AsStated ==
  [][\A p \in Procs, t \in Targets :
       (SyncCompletes(p) /\ req[p].input.target = t) =>
         cdnServices(t)' = versionServices(getMaybeLatestComposableVersion(t))']_vars

\* C24: after a sync that completes without error the CDN schema resource
\* of the target equals the schemas of the version that was the target's
\* latest composable version when the sync read it, whatever uploads failed
\* before
C24_SyncUploadsVersionRead ==
  [][\A p \in Procs, t \in Targets :
       /\ (SyncReads(p) /\ req'[p].input.target = t) =>
            /\ req'[p].input.version # 0
            /\ req'[p].input.version = getMaybeLatestComposableVersion(t)
       /\ (SyncCompletes(p) /\ req[p].input.target = t) =>
            /\ cdnServices(t)' = versionServices(req[p].input.version)
            /\ cdn'[t].schema.kind # "none"]_vars

\* a sync has completed after a publish whose upload failed, and the CDN
\* holds the schemas of the latest composable version
C24_Witness ==
  \E p, q \in Procs :
    /\ req[p].op = "sync" /\ req[p].pc = "done" /\ req[p].resp.typename = "ok"
    /\ UploadFailed(q) /\ q \in req[p].prior
    /\ req[p].input.version = getMaybeLatestComposableVersion(req[p].input.target)
    /\ cdnServices(req[p].input.target) = versionServices(req[p].input.version)


\* the metadata the schemas of an upload carry, in upload order
carriedMetadata(schemas) ==
  Map(Filter(schemas, LAMBDA sc : sc.metadata # Null), LAMBDA sc : sc.metadata)

\* p's updateCDN call ends in this step and its schema upload was stored
UpdatesCdn(p) ==
  /\ req[p].pc = "updateCDN" /\ req'[p].pc = "done"
  /\ req'[p].uploaded
  /\ cdn'[req[p].input.target].schema =
       cdnResources(req[p].result.cdn.schemas, req[p].result.cdn.supergraph).schema

\* C25 as stated: a CDN update for a schema set sets the target's metadata
\* resource to the merged array of metadata when several schemas carry
\* metadata and to null when none does, so that the metadata resource never
\* holds metadata of a version other than the one just uploaded
C25_AsStated ==
  [][\A p \in Procs, t \in Targets :
       (UpdatesCdn(p) /\ req[p].input.target = t) =>
         /\ Len(carriedMetadata(req[p].result.cdn.schemas)) > 1 =>
              cdn'[t].metadata = [kind |-> "array",
                                  items |-> carriedMetadata(req[p].result.cdn.schemas)]
         /\ Len(carriedMetadata(req[p].result.cdn.schemas)) = 0 =>
              cdn'[t].metadata = NoResource
         /\ \A i \in DOMAIN cdn'[t].metadata.items :
              \E j \in DOMAIN req[p].result.cdn.schemas :
                req[p].result.cdn.schemas[j].metadata = cdn'[t].metadata.items[i]]_vars

\* p's publish moves on to its CDN upload in this step
StartsUpload(p) ==
  /\ req[p].op = "publish"
  /\ req[p].pc # "updateCDN" /\ req'[p].pc = "updateCDN"

\* p's publish ends in this step without having uploaded anything
EndsWithoutUpload(p) ==
  /\ req'[p].pc = "done" /\ ~req'[p].uploaded
  /\ cdn' = cdn

\* the version a publish is about to upload was written by it as composable
UploadsComposable(p) ==
  StartsUpload(p) =>
    /\ req'[p].wrote = Len(versions') /\ Len(versions') = Len(versions) + 1
    /\ versions'[req'[p].wrote].isComposable

\* a forced legacy publish of a schema that fails validation writes a version
\* recorded as not composable and uploads nothing
ForcedWritesOnly(p) ==
  (/\ req[p].op = "publish" /\ req[p].pc = "publishNewVersion"
   /\ req'[p].pc # "publishNewVersion"
   /\ project.legacy /\ req[p].input.force
   /\ (~req[p].result.validation.isComposable
         \/ req[p].result.validation.hasBreakingChanges)) =>
    /\ Len(versions') = Len(versions) + 1
    /\ ~versions'[Len(versions')].isComposable
    /\ EndsWithoutUpload(p)

\* a rejected publish writes and uploads nothing
RejectedWritesNothing(p) ==
  (/\ req[p].op = "publish" /\ req[p].pc = "internalPublish"
   /\ req'[p].pc # "internalPublish"
   /\ req'[p].result.conclusion = Conclusion.Reject) =>
    /\ versions' = versions
    /\ EndsWithoutUpload(p)

\* only an upload step changes the CDN, for a publish that of a composable version
CdnChangedByUpload ==
  cdn' # cdn =>
    \E p \in Procs : /\ req[p].pc = "updateCDN"
                     /\ req[p].op = "publish" => versions[req[p].wrote].isComposable

\* C26: publish uploads artifacts to the CDN only for a version recorded with
\* isComposable = true: a legacy forced publish whose schema is not composable
\* or has breaking changes writes the version (recorded as not composable) but
\* uploads nothing, and a rejected publish writes and uploads nothing
C26_UploadsOnlyComposable ==
  [][\A p \in Procs : /\ UploadsComposable(p)
                      /\ ForcedWritesOnly(p)
                      /\ RejectedWritesNothing(p)
                      /\ CdnChangedByUpload]_vars

\* a forced legacy publish of a schema that does not pass validation has
\* written its version and ended without an upload, while the CDN still holds
\* what an earlier publish uploaded
C26_Witness ==
  \E p \in Procs :
    /\ req[p].op = "publish" /\ req[p].pc = "done"
    /\ project.legacy /\ req[p].input.force
    /\ req[p].wrote = Len(versions) /\ req[p].wrote > 1
    /\ ~versions[req[p].wrote].isComposable
    /\ ~req[p].uploaded
    /\ cdn[req[p].input.target].schema # NoResource

\* the model's decision on p's publish is taken in this step
Decides(p) ==
  /\ req[p].op = "publish"
  /\ req[p].pc = "internalPublish" /\ req'[p].pc # "internalPublish"

\* p's publish ends in this step with the typed error, before any validation,
\* and no action, version or CDN resource is written
EndsWithInputError(p, error, typename) ==
  /\ req'[p].pc = "done"
  /\ req'[p].result.kind = "error" /\ req'[p].result.error = error
  /\ req'[p].resp.typename = typename
  /\ ~req'[p].result.validation.ran
  /\ req'[p].wrote = 0 /\ ~req'[p].uploaded
  /\ actions' = actions /\ versions' = versions /\ cdn' = cdn

DeletesAbsent(p) ==
  /\ req[p].pc = "idle" /\ req'[p].op = "delete"
  /\ AllScopes \subseteq req'[p].scopes
  /\ isCompositeSchemaProject /\ ~project.legacy
  /\ liveNamed(getMaybeLatestVersion(req'[p].input.target), req'[p].input.service) = {}

\* C28: a delete naming a service that is not in the target's current live
\* set is rejected with exactly one error "Service '<name>' not found.",
\* regardless of force, without calling the orchestrator and without writing
\* an action or version
C28_DeleteOfAbsentService ==
  [][\A p \in Procs :
       DeletesAbsent(p) =>
         /\ req'[p].pc = "done"
         /\ req'[p].result.conclusion = Conclusion.Reject
         /\ req'[p].resp.typename = "errors"
         /\ req'[p].resp.errors = {[message |-> "Service not found",
                                    path |-> req'[p].input.service]}
         /\ Cardinality(req'[p].resp.errors) = 1
         /\ ~req'[p].result.validation.ran
         /\ req'[p].wrote = 0
         /\ actions' = actions /\ versions' = versions /\ cdn' = cdn]_vars

\* a forced delete of a service that was published and deleted before has
\* been rejected with the single not-found error
C28_Witness ==
  \E p \in Procs :
    /\ req[p].op = "delete" /\ req[p].pc = "done"
    /\ req[p].input.force
    /\ req[p].input.service \in ServiceNames
    /\ req[p].resp.errors = {[message |-> "Service not found", path |-> req[p].input.service]}
    /\ req[p].wrote = 0
    /\ Len(versions) > 1

\* p's call of validate has returned from a validation that was neither
\* initial nor short-circuited as identical and whose build and diff succeeded
ComparedByValidate(p) ==
  /\ req[p].op = "validate" /\ req[p].pc = "done"
  /\ ~req[p].input.isInitial
  /\ ~areIdentical(req[p].input.compare)
  /\ ~req[p].input.diffFails
  /\ ~buildFails(project.type, strict, req[p].input.schemas.before)
  /\ ~buildFails(project.type, strict, req[p].input.schemas.after)

\* the diff of the call found a change of criticality Breaking
FoundBreaking(p) == \E c \in req[p].result.changes : c.criticality = "Breaking"

\* C29 as stated: for a validation that is neither initial nor short-circuited
\* as identical and whose build and diff succeed, hasBreakingChanges is true
\* exactly when at least one change has criticality Breaking, for either value
\* of acceptBreakingChanges
C29_AsStated ==
  \A p \in Procs :
    ComparedByValidate(p) =>
      (req[p].result.validation.hasBreakingChanges <=> FoundBreaking(p))

\* C29: for such a validation, hasBreakingChanges is true exactly when at
\* least one change has criticality Breaking and acceptBreakingChanges is
\* false; with acceptBreakingChanges true it is false
C29_BreakingUnlessAccepted ==
  \A p \in Procs :
    ComparedByValidate(p) =>
      (req[p].result.validation.hasBreakingChanges
         <=> (FoundBreaking(p) /\ ~req[p].input.acceptBreakingChanges))

\* a validation that accepts breaking changes has found one and reports none
C29_Witness ==
  \E p \in Procs :
    /\ ComparedByValidate(p)
    /\ req[p].input.acceptBreakingChanges
    /\ FoundBreaking(p)
    /\ ~req[p].result.validation.hasBreakingChanges

\* p's call of validate has returned from a validation that went as far as the
\* comparison, where orchestrator.build or the diff failed
ComparisonFailed(p) ==
  /\ req[p].op = "validate" /\ req[p].pc = "done"
  /\ ~req[p].input.isInitial
  /\ ~areIdentical(req[p].input.compare)
  /\ \/ req[p].input.diffFails
     \/ buildFails(project.type, strict, req[p].input.schemas.before)
     \/ buildFails(project.type, strict, req[p].input.schemas.after)

\* the composition errors of the schemas validated by p's call
compositionErrorsOf(p) ==
  orchestratorValidate(prependBase(req[p].input.schemas.after,
                                   req[p].input.schemas.baseSchema))

\* C30: a failure of orchestrator.build or of the diff during validation never
\* propagates as an exception: validate returns a result whose errors are the
\* composition errors plus exactly one "Failed to compare schemas" error, with
\* isComposable determined only by whether the composition errors are empty
C30_ComparisonFailureIsAnError ==
  \A p \in Procs :
    ComparisonFailed(p) =>
      /\ req[p].result.kind = "result"
      /\ req[p].result.errors \ compositionErrorsOf(p)
           = {[message |-> "Failed to compare schemas", path |-> Null]}
      /\ compositionErrorsOf(p) \subseteq req[p].result.errors
      /\ Cardinality(req[p].result.errors) = Cardinality(compositionErrorsOf(p)) + 1
      /\ req[p].result.isComposable <=> (compositionErrorsOf(p) = {})

\* a validation whose build failed has returned a composable result with the
\* comparison error as its only error
C30_Witness ==
  \E p \in Procs :
    /\ ComparisonFailed(p)
    /\ ~req[p].input.diffFails
    /\ req[p].result.isComposable
    /\ req[p].result.errors = {[message |-> "Failed to compare schemas", path |-> Null]}

\* p's updateServiceName call is made and answered in this step
Renames(p) == req[p].pc = "idle" /\ req'[p].op = "updateServiceName"

\* the names of the live actions of version v, in rows `acts`
liveNames(v, acts) == {acts[a].service_name : a \in versions[v].live}

\* the conditions under which a rename may change a stored name
MayRename(input) ==
  /\ project.legacy
  /\ project.type \in {"FEDERATION", "STITCHING"}
  /\ input.service \in liveNames(input.version, actions)
  /\ input.newName \notin {"", " "}
  /\ input.newName \notin liveNames(input.version, actions)

\* within every version's live set the service names are pairwise distinct
PairwiseDistinct(acts) ==
  \A v \in DOMAIN versions : \A a, b \in versions[v].live :
    a # b => acts[a].service_name # acts[b].service_name

\* a rename changes a name only under the stated conditions, and fails
\* without a change otherwise
RenamesOnlyWhenAllowed(p) ==
  Renames(p) =>
    /\ actions' # actions => MayRename(req'[p].input)
    /\ ~MayRename(req'[p].input) =>
         /\ req'[p].resp.typename \in {"HiveError", "AccessError"}
         /\ actions' = actions /\ versions' = versions

\* a rename leaves the names of every live set pairwise distinct
RenameKeepsDistinct(p) ==
  (Renames(p) /\ PairwiseDistinct(actions)) => PairwiseDistinct(actions')

\* C31 as stated: updateServiceName changes a stored service name only when
\* the project uses the legacy registry model, is FEDERATION or STITCHING, the
\* old name exists in the version's live set, the new name is not empty or
\* whitespace-only and no service in that live set already has the new name;
\* in every other case it fails and leaves storage unchanged, so service names
\* within a version's live set stay pairwise distinct
C31_AsStated ==
  [][\A p \in Procs : /\ RenamesOnlyWhenAllowed(p)
                      /\ RenameKeepsDistinct(p)]_vars

C31_Conditions ==
  [][\A p \in Procs : RenamesOnlyWhenAllowed(p)]_vars

\* the names of the actions in the edge set of version v (0: no version)
edgeNames(v, vers, acts) ==
  IF v = 0 THEN {} ELSE {acts[a].service_name : a \in vers[v].live}

\* the edge of version v for a service name
edgesNamed(v, name, vers, acts) ==
  IF v = 0 THEN {} ELSE {a \in vers[v].live : acts[a].service_name = name}

\* this step records a DELETE action for a service that has an action in the
\* edge set of the target's latest version
RecordsDelete(t, name) ==
  /\ Len(actions') = Len(actions) + 1 /\ Len(versions') = Len(versions) + 1
  /\ actions'[Len(actions')].action = "DELETE"
  /\ actions'[Len(actions')].service_name = name
  /\ versions'[Len(versions')].target = t
  /\ name \in edgeNames(getMaybeLatestVersion(t), versions, actions)

\* C32: in the proof-of-concept publish, recording a DELETE action for service
\* S produces a latest version whose edge set still has one action per
\* previously live service name, in which the entry for S is the new DELETE
\* action (replacing S's previous action) and which is the action the version
\* points to
C32_PocDeleteKeepsEntry ==
  [][\A t \in Targets, name \in {"a", "b"} :
       RecordsDelete(t, name) =>
         /\ edgeNames(Len(versions'), versions', actions')
              = edgeNames(getMaybeLatestVersion(t), versions, actions)
         /\ \A n \in edgeNames(Len(versions'), versions', actions') :
              Cardinality(edgesNamed(Len(versions'), n, versions', actions')) = 1
         /\ edgesNamed(Len(versions'), name, versions', actions') = {Len(actions')}
         /\ \A n \in edgeNames(Len(versions'), versions', actions') \ {name} :
              edgesNamed(Len(versions'), n, versions', actions')
                = edgesNamed(getMaybeLatestVersion(t), n, versions, actions)
         /\ versions'[Len(versions')].actionId = Len(actions')
         /\ \E u \in Targets : u = t /\ getMaybeLatestVersion(u)' = Len(versions')]_vars

\* a target's latest version was written by a DELETE of one of two services:
\* its edges are the other service's ADD and the DELETE it points to
C32_Witness ==
  /\ Len(versions) = 3
  /\ getMaybeLatestVersion("t1") = 3
  /\ actions[3].action = "DELETE" /\ actions[3].service_name = "b"
  /\ versions[3].live = {1, 3}
  /\ actions[1].action = "ADD" /\ actions[1].service_name = "a"
  /\ versions[3].actionId = 3

\* commit i is the earliest commit of its service on its target
EarliestOfService(commits, i) ==
  \A j \in 1..(i - 1) : \/ commits[j].service # commits[i].service
                        \/ commits[j].target # commits[i].target

\* the migration runs in this step
Migrates == "legacy" \notin DOMAIN project /\ "legacy" \in DOMAIN project'

\* C33: the registry-v2 migration gives every commit of a SINGLE or CUSTOM
\* project the action N/A and, for FEDERATION and STITCHING projects, gives the
\* earliest commit of each (service name, target) pair the action ADD and
\* every later commit of that pair MODIFY, while keeping each version's
\* target, composability flag (valid becomes is_composable), triggering commit
\* and version-to-commit edges unchanged
C33_MigrationActions ==
  [][Migrates =>
       /\ DOMAIN actions' = DOMAIN actions /\ DOMAIN versions' = DOMAIN versions
       /\ \A i \in DOMAIN actions :
            /\ actions'[i].service_name = actions[i].service
            /\ actions'[i].target = actions[i].target
            /\ actions'[i].sdl = actions[i].content
            /\ actions'[i].action =
                 IF project.type \in {"SINGLE", "CUSTOM"} THEN "N/A"
                 ELSE IF EarliestOfService(actions, i) THEN "ADD" ELSE "MODIFY"
       /\ \A v \in DOMAIN versions :
            /\ versions'[v].target = versions[v].target
            /\ versions'[v].isComposable = versions[v].valid
            /\ versions'[v].actionId = versions[v].commit_id
            /\ versions'[v].live = versions[v].edges]_vars

\* a migrated composite project whose service a has an ADD and a MODIFY on one
\* target and an ADD on the other, with a version that is not composable
C33_Witness ==
  /\ "legacy" \in DOMAIN project /\ project.type = "FEDERATION"
  /\ Len(actions) = 3
  /\ actions[1].action = "ADD" /\ actions[1].service_name = "a" /\ actions[1].target = "t1"
  /\ actions[2].action = "ADD" /\ actions[2].service_name = "a" /\ actions[2].target = "t2"
  /\ actions[3].action = "MODIFY" /\ actions[3].service_name = "a" /\ actions[3].target = "t1"
  /\ versions[3].live = {3} /\ ~versions[3].isComposable

\* version v was written by a publish
WrittenByPublish(v) == actions[versions[v].actionId].action # "DELETE"

\* the composition errors of the live set of version v under the base schema
\* recorded with it
compositionErrorsOfVersion(v) ==
  orchestratorValidate(
    prependBase(Map(Filter(getSchemasOfVersion(v), isSchemaWithSDL), createSchemaObject),
                IF supportsBaseSchema(project) THEN versions[v].base_schema ELSE Null))

\* C34 as stated: every version that publish records with isComposable = true
\* has a live service set for which the orchestrator's validate returns no
\* composition errors, also when the published service's SDL is identical to
\* its existing SDL and only its url changed while the target's latest
\* version is not composable
C34_AsStated ==
  \A v \in DOMAIN versions :
    (WrittenByPublish(v) /\ versions[v].isComposable) => compositionErrorsOfVersion(v) = {}

\* p writes a version in this step
WritesVersion(p) ==
  /\ req[p].wrote = 0 /\ req'[p].wrote = Len(versions')
  /\ Len(versions') = Len(versions) + 1

\* a version written by a publish is recorded as composable
PublishWritesComposable(p) ==
  (WritesVersion(p) /\ req[p].op = "publish") => versions'[Len(versions')].isComposable

\* a version recorded as not composable is written by a delete with force
NonComposableByForcedDelete(p) ==
  (WritesVersion(p) /\ ~versions'[Len(versions')].isComposable) =>
    req[p].op = "delete" /\ req[p].input.force

\* every version is written by a request, and a target's latest version that
\* is not composable is that of a DELETE action
LatestNonComposableIsDelete ==
  /\ versions' # versions => \E p \in Procs : WritesVersion(p)
  /\ \A t \in Targets :
       (getMaybeLatestVersion(t) # 0 /\ ~versions[getMaybeLatestVersion(t)].isComposable) =>
         actions[versions[getMaybeLatestVersion(t)].actionId].action = "DELETE"

\* C35: in a modern-model project, after any sequence of publish and delete
\* operations, the target's latest version has isComposable = false only if
\* that version was created by a delete with force = true; no publish ever
\* creates a non-composable version
C35_ModernNonComposableOnlyByDelete ==
  [][\A p \in Procs : /\ PublishWritesComposable(p)
                      /\ NonComposableByForcedDelete(p)
                      /\ LatestNonComposableIsDelete]_vars

\* a forced delete has written the target's latest version, which is not
\* composable
C35_Witness ==
  \E p \in Procs :
    /\ ~project.legacy
    /\ req[p].op = "delete" /\ req[p].pc = "done" /\ req[p].input.force
    /\ req[p].wrote = getMaybeLatestVersion(req[p].input.target)
    /\ req[p].wrote # 0
    /\ ~versions[req[p].wrote].isComposable

\* when p's publish was issued, q's publish with the same checksum to another
\* target was in flight
OverlapsOtherTarget(p, q) ==
  /\ req[p].op = "publish" /\ req[q].op = "publish"
  /\ q \in req[p].overlap
  /\ req[q].input.checksum = req[p].input.checksum
  /\ req[q].input.target # req[p].input.target

\* C36 as stated: idempotency de-duplication never crosses targets: a publish
\* to target T2 executes and can write a version to T2 even when a publish
\* carrying the same checksum to a different target T1 is in flight or
\* completed within the TTL, and it never receives T1's response
C36_AsStated ==
  \A p, q \in Procs :
    (OverlapsOtherTarget(p, q) /\ req[p].pc = "done") => req[p].executed

\* the schemas p validated include the action q wrote
SawWriteOf(p, q) ==
  \E i \in DOMAIN req[p].result.schemasAfter :
    req[p].result.schemasAfter[i].id = versions[req[q].wrote].actionId

\* p and q are completed publishes of two different services of one target,
\* each of which read the latest version before the other wrote; q wrote
\* right after p and nothing was written after them
Raced(p, q) ==
  /\ p # q /\ PublishedService(p) /\ PublishedService(q)
  /\ req[p].input.target = req[q].input.target
  /\ req[p].input.service # req[q].input.service
  /\ req[p].input.checksum # req[q].input.checksum
  /\ ~SawWriteOf(p, q) /\ ~SawWriteOf(q, p)
  /\ req[q].wrote = req[p].wrote + 1
  /\ getMaybeLatestVersion(req[q].input.target) = req[q].wrote

\* the latest version keeps the actions both publishes wrote
KeepsBoth(p, q) ==
  {versions[req[p].wrote].actionId, versions[req[q].wrote].actionId}
     \subseteq versions[req[q].wrote].live

\* the flag of the latest version is the validation result of its live set
FlagOfLiveSet(q) ==
  versions[req[q].wrote].isComposable = (compositionErrorsOfVersion(req[q].wrote) = {})

C37_KeepsBoth == \A p, q \in Procs : Raced(p, q) => KeepsBoth(p, q)

C37_Raced == \E p, q \in Procs : Raced(p, q)

\* C37 as stated: when two publishes with different checksums add or modify
\* two different services of the same composite target and both read the
\* same latest version before either writes, then after both have completed
\* the live set of the latest version contains the newly published actions of
\* both, and its isComposable flag is the validation result of that live set
C37_AsStated ==
  \A p, q \in Procs : Raced(p, q) => (KeepsBoth(p, q) /\ FlagOfLiveSet(q))

\* the registry storage of the targets: actions, versions, base schemas
StoreChanged == <<actions, versions, baseSchema>>' # <<actions, versions, baseSchema>>

\* the step is one of a request made with REGISTRY_WRITE
WriterActs ==
  \E p \in Procs :
    /\ req'[p] # req[p]
    /\ "REGISTRY_WRITE" \in (IF req'[p].op # "none" THEN req'[p].scopes ELSE req[p].scopes)

\* C38 as stated: every SchemaManager operation that mutates registry storage
\* (createVersion, deleteSchema, updateSchemaVersionStatus, updateSchemaUrl,
\* updateServiceName, updateBaseSchema) requires REGISTRY_WRITE: a caller
\* holding only REGISTRY_READ cannot change any stored state through them
C38_AsStated == [][StoreChanged => WriterActs]_vars

\* the same for the stored actions and versions alone
C38_ActionsAndVersions ==
  [][(<<actions, versions>>' # <<actions, versions>>) => WriterActs]_vars

\* p is a completed request of kind op that wrote a composable version
CreatedComposable(p, op) ==
  /\ req[p].op = op /\ req[p].pc = "done"
  /\ req[p].wrote # 0 /\ versions[req[p].wrote].isComposable

\* the CDN schema resource of the target is the live set of its latest
\* composable version
CdnServesLatestComposable(target) ==
  cdnServices(target) = versionServices(getMaybeLatestComposableVersion(target))

\* the same for publishes alone
C39_AfterPublish ==
  \A p \in Procs :
    CreatedComposable(p, "publish") => CdnServesLatestComposable(req[p].input.target)

\* C39 as stated: if no CDN upload fails, then after every completed publish
\* or delete that creates a composable version the CDN schema resource of the
\* target equals the live set of the target's latest composable version; a
\* service removed by a successful delete is no longer served by the CDN
C39_AsStated ==
  \A p \in Procs :
    (CreatedComposable(p, "publish") \/ CreatedComposable(p, "delete"))
       => CdnServesLatestComposable(req[p].input.target)

\* p's check is answered in this step
AnswersCheck(p) == req[p].pc = "idle" /\ req'[p].op = "check" /\ req'[p].pc = "done"

\* the publishes of the checked service and sdl with a non-empty url
PublishesOf(input) ==
  {[input EXCEPT !.url = url, !.force = force, !.accept = accept] :
     url \in {"u1", "u2"}, force \in BOOLEAN, accept \in BOOLEAN}

\* a publish of the input on the current state concludes Publish or Neutral
ConcludesPublishOrNeutral(input) ==
  /\ publishResultNow(input).kind = "result"
  /\ publishResultNow(input).conclusion \in {Conclusion.Publish, Conclusion.Neutral}

CheckAgreesWithPublish(p) ==
  (AnswersCheck(p) /\ req'[p].resp.valid)
     => \A input \in PublishesOf(req'[p].input) : ConcludesPublishOrNeutral(input)

\* C40: if check reports valid = true for a service and sdl in some registry
\* state, then a publish of the same service and sdl with a non-empty url
\* against the same state concludes Publish or Neutral and never Reject, in
\* the legacy and in the modern model
C40_CheckAgreesWithPublish == [][\A p \in Procs : CheckAgreesWithPublish(p)]_vars

\* a check of a target that has versions was answered with valid = true
C40_Witness ==
  \E p \in Procs :
    /\ req[p].op = "check" /\ req[p].pc = "done" /\ req[p].resp.valid
    /\ getMaybeLatestVersion(req[p].input.target) # 0
    /\ isCompositeSchemaProject

====
